---- MODULE Spec2Model ----
(***************************************************************************)
(* A model of the connection-management layer of the Mileage Tracker Pro   *)
(* dashboard (supabase_client.py) and of the dashboard's fetch functions   *)
(* (dashboard.py).                                                         *)
(*                                                                         *)
(* Conventions.  A Python Optional value is a sequence of length 0 (None,  *)
(* or an attribute that has not been assigned) or 1 (<<v>>).  An object is *)
(* known by a number: managers are numbered in the order of their          *)
(* creation; a new Client or RateLimiter gets a number no live object of   *)
(* its class holds, as a new Python object gets an address.                *)
(* datetime.now() is the variable now, in minutes; time.sleep durations    *)
(* are recorded in units of half a second.                                 *)
(* start_time, which only feeds the uptime that get_metrics reports, is    *)
(* not part of the state.                                                  *)
(***************************************************************************)
EXTENDS Integers, Sequences, FiniteSets, TLC

VARIABLES
    osenv,      \* os.environ after load_dotenv(): variable name -> Optional string
    heap,       \* every SupabaseManager object made so far, by object number
    instance,   \* SupabaseManager._instance: Optional object number
    now,        \* datetime.now(), in minutes
    returned,   \* history: the objects that SupabaseManager(env) has returned
    ret,        \* what the last operation did and gave back to its caller
    pool,       \* a ConnectionPool used on its own: Optional pool
    rl,         \* a RateLimiter used on its own
    rl_time,    \* time.time(), in ticks of 1/TicksPerSecond s
    admissions, \* history: every timestamp wait_if_needed has appended
    threads,    \* the threads that construct the manager concurrently
    dash,       \* what the last dashboard computation did: Optional record
    backend     \* the rows of the backend's trips and profiles tables

vars == <<osenv, heap, instance, now, returned, ret, pool, rl, rl_time,
          admissions, threads, dash, backend>>

\* The variables of each part of the program.
mgrVars == <<heap, instance, returned>>
rlVars == <<rl, rl_time, admissions>>
dashVars == <<dash, backend>>

\* What the single-threaded program leaves alone.
outsideMgr == <<pool, rl, rl_time, admissions, threads, dash, backend>>

(***************************************************************************)
(* Bounds of the model.                                                    *)
(***************************************************************************)
MaxNow == 6
TickMinutes == 3
MaxQueries == 1
MaxErrors == 5
MaxFailedAttempts == 1
MaxKindChanges == 1
TicksPerSecond == 2
MaxRLTime == 3
MaxCalls == 12
MaxLate == 1
MaxTrips == 2

(***************************************************************************)
(* Environment and SupabaseConfig.get_config                               *)
(***************************************************************************)
Environment == {"production", "staging", "development", "testing"}

EnvVarNames == {"SUPABASE_URL", "SUPABASE_KEY",
                "STAGING_SUPABASE_URL", "STAGING_SUPABASE_KEY",
                "DEV_SUPABASE_URL", "DEV_SUPABASE_KEY",
                "TEST_SUPABASE_URL", "TEST_SUPABASE_KEY"}

\* os.getenv(name, default): the variable's value when it is set (an empty
\* string included), the default when it is not.
\* "os.getenv(name) or default": an empty value falls back too.
getenv_or(os, name, default) == IF os[name] \in {<<>>, <<"">>} THEN default ELSE os[name]

getenv(os, name, default) == IF os[name] = <<>> THEN default ELSE os[name]

configs(os) ==
    [production |->
        [url |-> getenv(os, "SUPABASE_URL", <<>>),
         key |-> getenv(os, "SUPABASE_KEY", <<>>),
         timeout |-> 30, max_retries |-> 3],
     staging |->
        [url |-> getenv(os, "STAGING_SUPABASE_URL", getenv(os, "SUPABASE_URL", <<>>)),
         key |-> getenv(os, "STAGING_SUPABASE_KEY", getenv(os, "SUPABASE_KEY", <<>>)),
         timeout |-> 30, max_retries |-> 3],
     development |->
        [url |-> getenv(os, "DEV_SUPABASE_URL", getenv(os, "SUPABASE_URL", <<>>)),
         key |-> getenv(os, "DEV_SUPABASE_KEY", getenv(os, "SUPABASE_KEY", <<>>)),
         timeout |-> 60, max_retries |-> 5],
     testing |->
        [url |-> getenv(os, "TEST_SUPABASE_URL", <<"https://test.supabase.co">>),
         key |-> getenv(os, "TEST_SUPABASE_KEY", <<"test_key">>),
         timeout |-> 10, max_retries |-> 1]]

\* An exception object: its type and what its message reports.
Exc(type, info) == [type |-> type, info |-> info]

\* Python's "not v" for an Optional string: None and "" are falsy.
Falsy(v) == v = <<>> \/ v = <<"">>

get_config(os, env) ==
    LET config == configs(os)[env]
    IN  IF Falsy(config.url) \/ Falsy(config.key)
        THEN [raised |-> <<Exc("ValueError", 0)>>, value |-> <<>>]
        ELSE [raised |-> <<>>, value |-> <<config>>]

(***************************************************************************)
(* ConnectionPool                                                          *)
(***************************************************************************)
health_check_interval == 5

ConnectionPool(client) ==
    [client |-> client, status |-> "disconnected",
     last_health_check |-> <<>>, failed_attempts |-> 0]

\* What one run of perform_health_check can meet.  "ok": the client is a
\* Client and the table probe answers; "table_error": it is a Client and the
\* probe raises (caught, logged); "not_client": isinstance is false, the
\* function falls off its end and returns None; "error": an exception reaches
\* the outer handler.
HealthOk == {"ok", "table_error"}
HealthFail == {"not_client", "error"}
HealthOutcome == HealthOk \cup HealthFail

perform_health_check(p, outcome, t) ==
    CASE outcome \in HealthOk ->
            [pool |-> [p EXCEPT !.status = "connected",
                                !.failed_attempts = 0,
                                !.last_health_check = <<t>>],
             result |-> <<TRUE>>, checked |-> TRUE, backend_calls |-> 1]
      [] outcome = "not_client" ->
            [pool |-> p,
             result |-> <<>>, checked |-> TRUE, backend_calls |-> 0]
      [] OTHER ->
            [pool |-> [p EXCEPT !.failed_attempts = @ + 1,
                                !.status = "error"],
             result |-> <<FALSE>>, checked |-> TRUE, backend_calls |-> 0]

\* is_healthy with >= in the place of >.
is_healthy_early(p, outcome, t) ==
    IF p.last_health_check = <<>>
       \/ t - p.last_health_check[1] >= health_check_interval
    THEN perform_health_check(p, outcome, t)
    ELSE [pool |-> p,
          result |-> <<p.status = "connected">>,
          checked |-> FALSE, backend_calls |-> 0]

is_healthy(p, outcome, t) ==
    IF p.last_health_check = <<>>
       \/ t - p.last_health_check[1] > health_check_interval
    THEN perform_health_check(p, outcome, t)
    ELSE [pool |-> p,
          result |-> <<p.status = "connected">>,
          checked |-> FALSE, backend_calls |-> 0]

\* "is not False" in the place of a truth test.
NotFalse(r) == r # <<FALSE>>

\* Python's truth value of what a health check returned (True, False, None).
Truthy(r) == r = <<TRUE>>

(***************************************************************************)
(* RateLimiter                                                             *)
(***************************************************************************)
RateLimiter(calls_per_second) ==
    [calls_per_second |-> calls_per_second, last_call |-> 0, call_times |-> <<>>]

\* The limiter SupabaseManager.__init__ builds.
ManagerLimiter == RateLimiter(10)

\* wait_if_needed that sleeps only above calls_per_second.
wait_if_needed_over(r, t, late) ==
    LET kept == SelectSeq(r.call_times, LAMBDA x : t - x < TicksPerSecond)
        sleep_time == TicksPerSecond - (t - kept[1])
        sleeps == Len(kept) > r.calls_per_second /\ sleep_time > 0
        current_time == IF sleeps THEN t + sleep_time + late ELSE t
    IN  [rl |-> [r EXCEPT !.call_times = Append(kept, current_time),
                          !.last_call = current_time],
         time |-> current_time,
         slept |-> IF sleeps THEN <<sleep_time>> ELSE <<>>]

\* wait_if_needed called at time t; a sleep ends `late` ticks after the time
\* asked for.  One second is TicksPerSecond ticks.
wait_if_needed(r, t, late) ==
    LET kept == SelectSeq(r.call_times, LAMBDA x : t - x < TicksPerSecond)
        sleep_time == TicksPerSecond - (t - kept[1])
        sleeps == Len(kept) >= r.calls_per_second /\ sleep_time > 0
        current_time == IF sleeps THEN t + sleep_time + late ELSE t
    IN  [rl |-> [r EXCEPT !.call_times = Append(kept, current_time),
                          !.last_call = current_time],
         time |-> current_time,
         slept |-> IF sleeps THEN <<sleep_time>> ELSE <<>>]

(***************************************************************************)
(* The record of an operation                                              *)
(***************************************************************************)
\* What an operation reports: the exception it let through (raised) or what it
\* returned (value, an object number or an invocation number; truth, a
\* boolean), and what it did on the way.
NoRet ==
    [op |-> "none", arg |-> "", pre_initialized |-> FALSE,
     raised |-> <<>>, value |-> <<>>, truth |-> <<>>,
     ran_init |-> FALSE, attempts |-> 0, invocations |-> 0, rl_waits |-> 0,
     sleeps |-> <<>>, new_clients |-> 0, new_limiters |-> 0, last_client |-> <<>>,
     backend_calls |-> 0, checked |-> FALSE, max_retries |-> 0, first_ok |-> 0,
     config |-> <<>>, slept |-> <<>>, called_at |-> 0]

(***************************************************************************)
(* SupabaseManager                                                         *)
(***************************************************************************)
\* object.__new__(cls): no instance attribute is set yet; _client is read from
\* the class attribute, None.
NewObject ==
    [env |-> <<>>, initialized |-> <<>>, config |-> <<>>,
     rate_limiter |-> <<>>, connection_pool |-> <<>>,
     query_count |-> 0, query_errors |-> 0, client |-> <<>>]

\* The number of an object made while `live` (an Optional number) is still
\* referenced.
Fresh(live) == IF live = <<1>> THEN 2 ELSE 1

\* One connection attempt either fails in create_client or reaches the health
\* check of the new pool.
AttemptFail == {"create_raises"} \cup HealthFail
AttemptOutcome == AttemptFail \cup HealthOk

\* The failures k attempts in a row can meet: the kind of failure changes at
\* most MaxKindChanges times from one attempt to the next.
FailSeqs(k) ==
    {f \in [1..k -> AttemptFail] :
        Cardinality({i \in 1..(k - 1) : f[i] # f[i + 1]}) <= MaxKindChanges}

\* What the n attempts of one call can meet: failures up to a first success
\* (whatever would follow a success is written "ok"), or n failures.
AttemptSeqs(n) ==
    UNION {{f \o <<s>> \o [i \in 1..(n - k - 1) |-> "ok"] :
                f \in FailSeqs(k), s \in HealthOk} : k \in 0..(n - 1)}
    \cup FailSeqs(n)

AttemptSeqsOf == [n \in {1, 3, 5} |-> AttemptSeqs(n)]

InitRetryDelay == 2

\* The for loop of _initialize_client from iteration `attempt` on (0-based, as
\* in the code).  acc counts what the call has done so far.
RECURSIVE initialize_attempts(_, _, _, _, _, _)
initialize_attempts(m, outs, t, attempt, retry_delay, acc) ==
    LET max_retries == m.config[1].max_retries
    IN  IF attempt >= max_retries
        THEN [m |-> m, raised |-> <<>>] @@ acc
        ELSE
        LET o == outs[attempt + 1]
            created == o # "create_raises"
            c == Fresh(m.client)
            h == perform_health_check(ConnectionPool(c), o, t)
            m1 == IF created
                  THEN [m EXCEPT !.client = <<c>>, !.connection_pool = <<h.pool>>]
                  ELSE m
            acc1 == [attempts |-> acc.attempts + 1,
                     sleeps |-> acc.sleeps,
                     new_clients |-> acc.new_clients + (IF created THEN 1 ELSE 0),
                     last_client |-> IF created THEN <<c>> ELSE acc.last_client,
                     backend_calls |-> acc.backend_calls
                                       + (IF created THEN h.backend_calls ELSE 0)]
        IN  IF created /\ Truthy(h.result)
            THEN [m |-> m1, raised |-> <<>>] @@ acc1
            ELSE IF attempt < max_retries - 1
            THEN initialize_attempts(m1, outs, t, attempt + 1, retry_delay * 2,
                                     [acc1 EXCEPT !.sleeps = Append(@, retry_delay)])
            ELSE [m |-> m1, raised |-> <<Exc("Exception", max_retries)>>] @@ acc1

NoAttempts ==
    [attempts |-> 0, sleeps |-> <<>>, new_clients |-> 0, last_client |-> <<>>,
     backend_calls |-> 0]

\* _initialize_client starting from execute_with_retry's delay.
initialize_client_half(m, outs, t) ==
    initialize_attempts(m, outs, t, 0, 1, NoAttempts)

initialize_client(m, outs, t) ==
    initialize_attempts(m, outs, t, 0, InitRetryDelay, NoAttempts)

\* __new__ without its test of _instance.
new_always(hp, inst, env) ==
    [heap |-> Append(hp, [NewObject EXCEPT !.env = <<env>>,
                                           !.initialized = <<FALSE>>]),
     instance |-> <<Len(hp) + 1>>, self |-> Len(hp) + 1]

\* SupabaseManager.__new__: the heap and _instance after it, and the object
\* it returns.
new(hp, inst, env) ==
    IF inst = <<>>
    THEN [heap |-> Append(hp, [NewObject EXCEPT !.env = <<env>>,
                                                !.initialized = <<FALSE>>]),
          instance |-> <<Len(hp) + 1>>, self |-> Len(hp) + 1]
    ELSE [heap |-> hp, instance |-> inst, self |-> inst[1]]

\* The body of __init__ under its test, up to the call of _initialize_client.
init_body(m, env, outs, os, t) ==
    LET cfg == get_config(os, env)
        m1 == [m EXCEPT !.env = <<env>>]
        m2 == [m1 EXCEPT !.config = cfg.value,
                         !.rate_limiter = <<Fresh(m.rate_limiter)>>,
                         !.connection_pool = <<>>,
                         !.query_count = 0,
                         !.query_errors = 0]
        r == initialize_client(m2, outs, t)
    IN  IF cfg.raised # <<>>
        THEN [m |-> m1, raised |-> cfg.raised, new_limiters |-> 0] @@ NoAttempts
        ELSE [new_limiters |-> 1] @@ r

\* __init__ that binds env and config before its test of initialized.
init_rebinding(m, env, outs, os, t) ==
    IF m.initialized = <<TRUE>>
    THEN [m |-> IF get_config(os, env).raised = <<>>
                THEN [m EXCEPT !.env = <<env>>, !.config = get_config(os, env).value]
                ELSE [m EXCEPT !.env = <<env>>],
          raised |-> <<>>, ran_init |-> FALSE, new_limiters |-> 0]
         @@ NoAttempts
    ELSE
    LET b == init_body(m, env, outs, os, t)
    IN  [m |-> IF b.raised = <<>> THEN [b.m EXCEPT !.initialized = <<TRUE>>]
               ELSE b.m,
         ran_init |-> TRUE] @@ b

\* __init__ that sets initialized before it calls _initialize_client.
init_marking_first(m, env, outs, os, t) ==
    IF m.initialized = <<TRUE>>
    THEN [m |-> m, raised |-> <<>>, ran_init |-> FALSE, new_limiters |-> 0]
         @@ NoAttempts
    ELSE
    LET b == init_body(m, env, outs, os, t)
    IN  [m |-> IF b.raised = <<>> \/ b.m.config # <<>>
               THEN [b.m EXCEPT !.initialized = <<TRUE>>]
               ELSE b.m,
         ran_init |-> TRUE] @@ b

\* SupabaseManager.__init__ on object m.
init(m, env, outs, os, t) ==
    IF m.initialized = <<TRUE>>
    THEN [m |-> m, raised |-> <<>>, ran_init |-> FALSE, new_limiters |-> 0]
         @@ NoAttempts
    ELSE
    LET b == init_body(m, env, outs, os, t)
    IN  [m |-> IF b.raised = <<>> THEN [b.m EXCEPT !.initialized = <<TRUE>>]
               ELSE b.m,
         ran_init |-> TRUE] @@ b

\* The client property.
client_get(m, outs, hout, t) ==
    LET r1 == IF m.client = <<>>
              THEN initialize_client(m, outs, t)
              ELSE [m |-> m, raised |-> <<>>] @@ NoAttempts
        h == is_healthy(r1.m.connection_pool[1], hout, t)
        m2 == [r1.m EXCEPT !.connection_pool = <<h.pool>>]
        r2 == initialize_client(m2, outs, t)
    IN  IF r1.raised # <<>>
        THEN [value |-> <<>>, ran_init |-> TRUE] @@ r1
        ELSE IF r1.m.connection_pool = <<>>
        THEN [raised |-> <<Exc("AttributeError", 0)>>, value |-> <<>>,
              ran_init |-> m.client = <<>>] @@ r1
        ELSE IF Truthy(h.result)
        THEN [m |-> m2, value |-> m2.client, ran_init |-> m.client = <<>>,
              backend_calls |-> r1.backend_calls + h.backend_calls] @@ r1
        ELSE [value |-> IF r2.raised = <<>> THEN r2.m.client ELSE <<>>,
              ran_init |-> TRUE,
              attempts |-> r1.attempts + r2.attempts,
              sleeps |-> r1.sleeps \o r2.sleeps,
              new_clients |-> r1.new_clients + r2.new_clients,
              backend_calls |-> r1.backend_calls + h.backend_calls
                                + r2.backend_calls] @@ r2

\* close() that forgets the pool.
close_client_only(m) ==
    IF m.client # <<>> THEN [m EXCEPT !.client = <<>>] ELSE m

close(m) ==
    IF m.client # <<>>
    THEN [m EXCEPT !.client = <<>>, !.connection_pool = <<>>]
    ELSE m

reset_metrics(m) ==
    [m EXCEPT !.query_count = 0, !.query_errors = 0]

\* What one invocation of func does: it returns ("ok") or raises ("raise").
FuncOutcome == {"ok", "raise"}

\* What the n invocations of one call can meet: k of them raise and the next
\* returns (whatever would follow it is written "ok"), or all n raise.
FuncSeqs(n) ==
    {[i \in 1..n |-> IF i <= k THEN "raise" ELSE "ok"] : k \in 0..n}

ExecRetryDelay == 1

\* The for loop of execute_with_retry from iteration `attempt` on (0-based).
\* The value of invocation i is written i, its exception Exc("QueryError", i).
RECURSIVE execute_attempts(_, _, _, _, _)
execute_attempts(m, outs, attempt, retry_delay, acc) ==
    LET max_retries == m.config[1].max_retries
    IN  IF attempt >= max_retries
        THEN [m |-> m, raised |-> <<>>, value |-> <<>>] @@ acc
        ELSE
        LET o == outs[attempt + 1]
            acc1 == [invocations |-> acc.invocations + 1,
                     rl_waits |-> acc.rl_waits + 1,
                     sleeps |-> acc.sleeps]
        IN  IF o = "ok"
            THEN [m |-> [m EXCEPT !.query_count = @ + 1], raised |-> <<>>,
                  value |-> <<attempt + 1>>] @@ acc1
            ELSE
            LET m1 == [m EXCEPT !.query_errors = @ + 1]
            IN  IF attempt < max_retries - 1
                THEN execute_attempts(m1, outs, attempt + 1, retry_delay * 2,
                                      [acc1 EXCEPT !.sleeps = Append(@, retry_delay)])
                ELSE [m |-> m1, raised |-> <<Exc("QueryError", attempt + 1)>>,
                      value |-> <<>>] @@ acc1

\* execute_with_retry that gives up after the first invocation.
execute_once(m, outs) ==
    LET r == execute_attempts([m EXCEPT !.config[1].max_retries = 1], outs, 0,
                              ExecRetryDelay,
                              [invocations |-> 0, rl_waits |-> 0, sleeps |-> <<>>])
    IN  [r EXCEPT !.m.config = m.config]

execute_with_retry(m, outs) ==
    execute_attempts(m, outs, 0, ExecRetryDelay,
                     [invocations |-> 0, rl_waits |-> 0, sleeps |-> <<>>])

(***************************************************************************)
(* The single-threaded program: one caller constructs the manager and uses *)
(* it.                                                                     *)
(***************************************************************************)
\* The environments this specification starts from: the main credentials set
\* or not; no variable of a particular environment set.
Unset == [v \in EnvVarNames |-> <<>>]

MgrOsEnvs ==
    {Unset,
     [Unset EXCEPT !["SUPABASE_URL"] = <<"https://main">>,
                   !["SUPABASE_KEY"] = <<"main_key">>]}

\* The parts of the state before anything has used them.
MgrIdle == heap = <<>> /\ instance = <<>> /\ returned = {}
RLIdle == rl = ManagerLimiter /\ rl_time = 0 /\ admissions = <<>>
NoBackend == [trips |-> <<>>, profiles |-> <<>>]
DashIdle == dash = <<>> /\ backend = NoBackend
RestIdle == threads = <<>> /\ DashIdle

Init ==
    /\ osenv \in MgrOsEnvs
    /\ MgrIdle
    /\ now = 0
    /\ ret = NoRet
    /\ pool = <<>>
    /\ RLIdle
    /\ RestIdle

\* The manager a caller holds: a construction returns only an initialized one.
Held == instance # <<>> /\ heap[instance[1]].initialized = <<TRUE>>
M == heap[instance[1]]

\* The health outcomes an existing pool can meet (the count of failed checks
\* is capped).
HealthOutcomesFor(p) ==
    {o \in HealthOutcome : o = "error" => p.failed_attempts < MaxFailedAttempts}

\* The place of the first success among the outcomes an operation was given;
\* 0 when there is none.
FirstOk(outs) ==
    LET ok == {i \in DOMAIN outs : outs[i] \in HealthOk}
    IN  IF ok = {} THEN 0 ELSE CHOOSE i \in ok : \A j \in ok : i <= j

\* The fields of ret that an operation's result r fills.
Report(op, r) ==
    [f \in DOMAIN NoRet |->
        IF f = "op" THEN op
        ELSE IF f \in DOMAIN r THEN r[f] ELSE NoRet[f]]

\* SupabaseManager(env): __new__, then __init__ on the object it returned.
Construct(env) ==
    LET n == new(heap, instance, env)
        m == n.heap[n.self]
        runs == m.initialized # <<TRUE>>
        cfg == get_config(osenv, env)
        connects == runs /\ cfg.raised = <<>>
    IN  /\ \E outs \in (IF connects THEN AttemptSeqsOf[cfg.value[1].max_retries]
                                    ELSE {<<>>}) :
              LET r == init(m, env, outs, osenv, now)
              IN  /\ heap' = [n.heap EXCEPT ![n.self] = r.m]
                  /\ instance' = n.instance
                  /\ returned' = IF r.raised = <<>> THEN returned \cup {n.self}
                                                    ELSE returned
                  /\ ret' = Report("construct",
                               [arg |-> env, pre_initialized |-> ~runs,
                                first_ok |-> FirstOk(outs),
                                value |-> IF r.raised = <<>> THEN <<n.self>> ELSE <<>>,
                                max_retries |-> IF connects
                                                THEN cfg.value[1].max_retries ELSE 0]
                               @@ r)
        /\ UNCHANGED <<osenv, now>>
        /\ UNCHANGED outsideMgr

\* manager.client
ReadClient ==
    /\ Held
    /\ \E hout \in (IF M.client = <<>> THEN {"ok"}
                    ELSE HealthOutcomesFor(M.connection_pool[1])) :
       \E outs \in (IF M.client = <<>>
                       \/ ~Truthy(is_healthy(M.connection_pool[1], hout, now).result)
                    THEN AttemptSeqsOf[M.config[1].max_retries] ELSE {<<>>}) :
          LET r == client_get(M, outs, hout, now)
          IN  /\ heap' = [heap EXCEPT ![instance[1]] = r.m]
              /\ ret' = Report("client",
                           [pre_initialized |-> TRUE, first_ok |-> FirstOk(outs),
                            max_retries |-> M.config[1].max_retries] @@ r)
    /\ UNCHANGED <<osenv, instance, now, returned>>
    /\ UNCHANGED outsideMgr

\* manager.connection_pool.is_healthy()
IsHealthy ==
    /\ Held
    /\ M.connection_pool # <<>>
    /\ \E hout \in HealthOutcomesFor(M.connection_pool[1]) :
          LET h == is_healthy(M.connection_pool[1], hout, now)
          IN  /\ heap' = [heap EXCEPT ![instance[1]].connection_pool = <<h.pool>>]
              /\ ret' = Report("is_healthy",
                           [pre_initialized |-> TRUE, truth |-> h.result,
                            checked |-> h.checked,
                            backend_calls |-> h.backend_calls])
    /\ UNCHANGED <<osenv, instance, now, returned>>
    /\ UNCHANGED outsideMgr

\* manager.close()
Close ==
    /\ Held
    /\ heap' = [heap EXCEPT ![instance[1]] = close(M)]
    /\ ret' = Report("close", [pre_initialized |-> TRUE])
    /\ UNCHANGED <<osenv, instance, now, returned>>
    /\ UNCHANGED outsideMgr

\* manager.reset_metrics()
ResetMetrics ==
    /\ Held
    /\ heap' = [heap EXCEPT ![instance[1]] = reset_metrics(M)]
    /\ ret' = Report("reset_metrics", [pre_initialized |-> TRUE])
    /\ UNCHANGED <<osenv, instance, now, returned>>
    /\ UNCHANGED outsideMgr

\* manager.execute_with_retry(func)
ExecuteWithRetry ==
    /\ Held
    /\ \E outs \in FuncSeqs(M.config[1].max_retries) :
          LET r == execute_with_retry(M, outs)
          IN  /\ r.m.query_count <= MaxQueries
              /\ r.m.query_errors <= MaxErrors
              /\ heap' = [heap EXCEPT ![instance[1]] = r.m]
              /\ ret' = Report("execute_with_retry",
                           [pre_initialized |-> TRUE, first_ok |-> FirstOk(outs),
                            max_retries |-> M.config[1].max_retries] @@ r)
    /\ UNCHANGED <<osenv, instance, now, returned>>
    /\ UNCHANGED outsideMgr

\* Time passes.
Tick ==
    /\ now + TickMinutes <= MaxNow
    /\ now' = now + TickMinutes
    /\ ret' = NoRet
    /\ UNCHANGED <<osenv, heap, instance, returned>>
    /\ UNCHANGED outsideMgr

Next ==
    \/ \E env \in Environment : Construct(env)
    \/ ReadClient
    \/ IsHealthy
    \/ Close
    \/ ResetMetrics
    \/ ExecuteWithRetry
    \/ Tick

Spec == Init /\ [][Next]_vars

(***************************************************************************)
(* Properties of the single-threaded program                               *)
(***************************************************************************)
\* The max_retries of each environment.
RetriesOf == [production |-> 3, staging |-> 3, development |-> 5, testing |-> 1]

\* 2^n
RECURSIVE Pow2(_)
Pow2(n) == IF n = 0 THEN 1 ELSE 2 * Pow2(n - 1)

\* A step of the named operation (the passing of time resets ret).
StepOf(op) == ret'.op = op

\* C1: constructions made one after another, with any env arguments, all
\* return the same object; at most one SupabaseManager object is ever made;
\* and a construction that finds the instance initialized does not run the
\* initialization again: it creates no client, rate limiter or pool and
\* leaves every field of the manager, the query counters included, as it was.
C1_Singleton ==
    /\ [](/\ Len(heap) <= 1
          /\ Cardinality(returned) <= 1
          /\ returned \subseteq {i \in 1..Len(heap) : instance = <<i>>})
    /\ [][(Held /\ StepOf("construct")) =>
            /\ heap' = heap
            /\ instance' = instance
            /\ ret'.raised = <<>> /\ ret'.value = instance
            /\ ~ret'.ran_init /\ ret'.attempts = 0
            /\ ret'.new_clients = 0 /\ ret'.new_limiters = 0]_vars

\* C1's case: a construction with another env found an initialized manager
\* that had counted a query and an error.
C1_Witness ==
    /\ ret.op = "construct" /\ ret.pre_initialized
    /\ ret.arg # M.env[1]
    /\ M.query_count > 0 /\ M.query_errors > 0
    /\ M.client # <<>>

\* C2: execute_with_retry invokes func at most max_retries times (3, 3, 5, 1
\* by environment); it returns the result of the first invocation that does
\* not raise and invokes nothing after it; when all max_retries invocations
\* raise, the exception of the last one propagates.
C2_Retry ==
    ret.op = "execute_with_retry" =>
        /\ ret.max_retries = RetriesOf[M.env[1]]
        /\ ret.invocations <= ret.max_retries
        /\ ret.first_ok # 0 =>
              /\ ret.raised = <<>>
              /\ ret.value = <<ret.first_ok>>
              /\ ret.invocations = ret.first_ok
        /\ ret.first_ok = 0 =>
              /\ ret.raised = <<Exc("QueryError", ret.max_retries)>>
              /\ ret.invocations = ret.max_retries

\* C2's cases: a call that returned after failed invocations, and a call all
\* of whose five invocations raised.
C2_Witness ==
    /\ ret.op = "execute_with_retry"
    /\ ret.max_retries = 5
    /\ ret.first_ok = 0
    /\ ret.raised # <<>>
    /\ M.query_count > 0

\* C3: the sleep after the k-th failed attempt lasts 0.5 * 2^(k-1) s in
\* execute_with_retry and 2^(k-1) s in _initialize_client (in half seconds:
\* 2^(k-1) and 2^k); there is one sleep per failed attempt but the last of
\* the call, none after a success, and every call starts from the initial
\* delay.
C3_Backoff ==
    /\ ret.op = "execute_with_retry" =>
          /\ Len(ret.sleeps) = ret.invocations - 1
          /\ \A k \in 1..Len(ret.sleeps) : ret.sleeps[k] = Pow2(k - 1)
    /\ (ret.op \in {"construct", "client"} /\ ret.attempts > 0) =>
          /\ Len(ret.sleeps) = ret.attempts - 1
          /\ \A k \in 1..Len(ret.sleeps) : ret.sleeps[k] = Pow2(k)

\* C3's case: a connection that failed five times and slept four.
C3_Witness ==
    /\ ret.op \in {"construct", "client"}
    /\ ret.attempts = 5 /\ ret.raised # <<>>
    /\ ret.sleeps = <<2, 4, 8, 16>>

\* C5: _initialize_client makes at most max_retries attempts; it returns
\* right after the first attempt whose client creation and health check both
\* succeed, with _client the client of that attempt and the pool, built on
\* it, CONNECTED; when every attempt fails it raises an exception that
\* reports max_retries attempts.
C5_InitializeClient ==
    (ret.op \in {"construct", "client"} /\ ret.attempts > 0) =>
        /\ ret.attempts <= ret.max_retries
        /\ ret.first_ok # 0 =>
              /\ ret.raised = <<>>
              /\ ret.attempts = ret.first_ok
              /\ ret.new_clients >= 1
              /\ M.client = ret.last_client
              /\ M.connection_pool # <<>>
              /\ M.connection_pool[1].client = M.client[1]
              /\ M.connection_pool[1].status = "connected"
        /\ ret.first_ok = 0 =>
              /\ ret.raised = <<Exc("Exception", ret.max_retries)>>
              /\ ret.attempts = ret.max_retries

\* C5's case: the third attempt was the first to succeed, after a health
\* check had failed on a client that was created.
C5_Witness ==
    /\ ret.op = "construct"
    /\ ret.first_ok = 3 /\ ret.attempts = 3
    /\ ret.new_clients >= 2
    /\ ret.raised = <<>>

\* C7: a read of manager.client that finds _client None runs
\* _initialize_client and, when it returns, returns the manager's client,
\* not None, with a pool in place; close() leaves _client and the pool None,
\* changes nothing when they already are, and leaves _instance, initialized
\* and the query counters as they were.
C7_LazyClient ==
    [][/\ (Held /\ M.client = <<>> /\ StepOf("client")) =>
            /\ ret'.attempts >= 1
            /\ ret'.raised = <<>> =>
                  /\ ret'.value # <<>>
                  /\ ret'.value = heap'[instance[1]].client
                  /\ heap'[instance[1]].connection_pool # <<>>
       /\ (Held /\ StepOf("close")) =>
            /\ heap'[instance[1]] = [M EXCEPT !.client = <<>>,
                                              !.connection_pool = <<>>]
            /\ M.client = <<>> => heap' = heap
            /\ instance' = instance]_vars

\* C7's case: the client was read, and a client returned, after close() had
\* reset it on a manager that had counted queries.
C7_Witness ==
    /\ ret.op = "client" /\ ret.ran_init /\ ret.attempts >= 1
    /\ ret.raised = <<>> /\ ret.value # <<>>
    /\ M.query_count > 0

(***************************************************************************)
(* A ConnectionPool on its own, minute by minute                           *)
(***************************************************************************)
PoolInit ==
    /\ osenv = Unset
    /\ MgrIdle
    /\ now = 0
    /\ ret = NoRet
    /\ pool = <<ConnectionPool(1)>>
    /\ RLIdle
    /\ RestIdle

\* pool.is_healthy()
PoolIsHealthy ==
    \E hout \in HealthOutcomesFor(pool[1]) :
        LET h == is_healthy(pool[1], hout, now)
        IN  /\ pool' = <<h.pool>>
            /\ ret' = Report("pool.is_healthy",
                         [truth |-> h.result, checked |-> h.checked,
                          backend_calls |-> h.backend_calls])
            /\ UNCHANGED <<osenv, mgrVars, now, rlVars, threads, dashVars>>

\* pool.perform_health_check()
PoolPerformHealthCheck ==
    \E hout \in HealthOutcomesFor(pool[1]) :
        LET h == perform_health_check(pool[1], hout, now)
        IN  /\ pool' = <<h.pool>>
            /\ ret' = Report("pool.perform_health_check",
                         [truth |-> h.result, checked |-> h.checked,
                          backend_calls |-> h.backend_calls])
            /\ UNCHANGED <<osenv, mgrVars, now, rlVars, threads, dashVars>>

\* A minute passes.
PoolTick ==
    /\ now < MaxNow
    /\ now' = now + 1
    /\ ret' = NoRet
    /\ UNCHANGED <<osenv, mgrVars, pool, rlVars, threads, dashVars>>

PoolNext == PoolIsHealthy \/ PoolPerformHealthCheck \/ PoolTick

SpecPool == PoolInit /\ [][PoolNext]_vars

\* C8: is_healthy performs a health check exactly when no check has
\* succeeded yet or the last successful one is more than 5 minutes old;
\* otherwise it makes no backend call, changes no field of the pool, and
\* returns whether status is CONNECTED.
C8_IsHealthy ==
    [][StepOf("pool.is_healthy") =>
        LET p == pool[1]
            stale == \/ p.last_health_check = <<>>
                     \/ now - p.last_health_check[1] > 5
        IN  /\ ret'.checked <=> stale
            /\ ~stale => /\ pool' = pool
                         /\ ret'.backend_calls = 0
                         /\ ret'.truth = <<p.status = "connected">>]_vars

\* C8's case: is_healthy answered False without a check, five minutes to the
\* minute after the last successful check, the status being ERROR by then.
C8_Witness ==
    /\ ret.op = "pool.is_healthy"
    /\ ~ret.checked
    /\ ret.truth = <<FALSE>>
    /\ pool[1].last_health_check = <<now - 5>>

(***************************************************************************)
(* SupabaseConfig.get_config over every environment                        *)
(***************************************************************************)
\* Every variable is unset, empty, or set to a value of its own (written as
\* the variable's name).
ConfigOsEnvs ==
    {[v \in EnvVarNames |-> CASE c[v] = 0 -> <<>> [] c[v] = 1 -> <<"">> [] OTHER -> <<v>>] :
        c \in [EnvVarNames -> 0..2]}

ConfigInit ==
    /\ osenv \in ConfigOsEnvs
    /\ MgrIdle
    /\ now = 0
    /\ ret = NoRet
    /\ pool = <<>>
    /\ RLIdle
    /\ RestIdle

\* SupabaseConfig.get_config(env)
GetConfig(env) ==
    LET cfg == get_config(osenv, env)
    IN  /\ ret' = Report("get_config",
                     [arg |-> env, raised |-> cfg.raised, config |-> cfg.value])
        /\ UNCHANGED <<osenv, mgrVars, now, pool, rlVars, threads, dashVars>>

ConfigNext == \E env \in Environment : GetConfig(env)

SpecConfig == ConfigInit /\ [][ConfigNext]_vars

\* What the claim says env resolves to for "URL" or "KEY": the main variable
\* in production; the environment's own variable when set, else the main
\* variable (staging, development) or the fixed default (testing).
Resolved(os, env, own, main, default) ==
    CASE env = "production" -> os[main]
      [] env = "testing" -> IF os[own] # <<>> THEN os[own] ELSE <<default>>
      [] OTHER -> IF os[own] # <<>> THEN os[own] ELSE os[main]

ResolvedUrl(os, env) ==
    Resolved(os, env,
             CASE env = "staging" -> "STAGING_SUPABASE_URL"
               [] env = "development" -> "DEV_SUPABASE_URL"
               [] OTHER -> "TEST_SUPABASE_URL",
             "SUPABASE_URL", "https://test.supabase.co")

ResolvedKey(os, env) ==
    Resolved(os, env,
             CASE env = "staging" -> "STAGING_SUPABASE_KEY"
               [] env = "development" -> "DEV_SUPABASE_KEY"
               [] OTHER -> "TEST_SUPABASE_KEY",
             "SUPABASE_KEY", "test_key")

\* C9: get_config(env) raises ValueError exactly when the resolved url or
\* key is missing or empty, and otherwise returns env's configuration: the
\* resolved url and key, and max_retries 3, 3, 5, 1.
C9_GetConfig ==
    ret.op = "get_config" =>
        LET url == ResolvedUrl(osenv, ret.arg)
            key == ResolvedKey(osenv, ret.arg)
            missing == url \in {<<>>, <<"">>} \/ key \in {<<>>, <<"">>}
        IN  /\ (ret.raised # <<>>) <=> missing
            /\ missing => ret.raised = <<Exc("ValueError", 0)>> /\ ret.config = <<>>
            /\ ~missing =>
                  /\ ret.config # <<>>
                  /\ ret.config[1].url = url
                  /\ ret.config[1].key = key
                  /\ ret.config[1].max_retries = RetriesOf[ret.arg]

\* C9's case: staging's own url is set but empty while the main url is set:
\* nothing falls back and get_config raises.
C9_Witness ==
    /\ ret.op = "get_config" /\ ret.arg = "staging"
    /\ osenv["STAGING_SUPABASE_URL"] = <<"">>
    /\ osenv["SUPABASE_URL"] = <<"SUPABASE_URL">>
    /\ osenv["STAGING_SUPABASE_KEY"] = <<"STAGING_SUPABASE_KEY">>
    /\ ret.raised # <<>>

(***************************************************************************)
(* A RateLimiter with a single caller                                      *)
(***************************************************************************)
RLInit ==
    /\ osenv = Unset
    /\ MgrIdle
    /\ now = 0
    /\ ret = NoRet
    /\ pool = <<>>
    /\ RLIdle
    /\ RestIdle

\* rate_limiter.wait_if_needed()
RLWait ==
    /\ Len(admissions) < MaxCalls
    /\ \E late \in 0..MaxLate :
          LET w == wait_if_needed(rl, rl_time, late)
          IN  /\ w.time <= MaxRLTime
              /\ rl' = w.rl
              /\ rl_time' = w.time
              /\ admissions' = Append(admissions, w.time)
              /\ ret' = Report("wait_if_needed",
                           [slept |-> w.slept, called_at |-> rl_time])
    /\ UNCHANGED <<osenv, mgrVars, now, pool, threads, dashVars>>

\* The clock moves on between two calls.
RLAdvance ==
    /\ rl_time < MaxRLTime
    /\ rl_time' = rl_time + 1
    /\ ret' = NoRet
    /\ UNCHANGED <<osenv, mgrVars, now, pool, rl, admissions, threads, dashVars>>

RLNext == RLWait \/ RLAdvance

SpecRL == RLInit /\ [][RLNext]_vars

\* The admissions with a timestamp in (t - 1 s, t].
InWindow(adm, t) == {i \in DOMAIN adm : t - TicksPerSecond < adm[i] /\ adm[i] <= t}

\* C4: with a single caller, every one-second window (t-1, t] holds at most
\* 10 admission timestamps; a call is delayed only when 10 admissions lie
\* within the second before it, and the sleep it asks for ends when the
\* oldest of them is exactly one second old.
C4_RateLimit ==
    /\ \A t \in 0..(MaxRLTime + TicksPerSecond) :
          Cardinality(InWindow(admissions, t)) <= 10
    /\ (ret.op = "wait_if_needed" /\ ret.slept # <<>>) =>
          LET prior == SubSeq(admissions, 1, Len(admissions) - 1)
              recent == InWindow(prior, ret.called_at)
          IN  /\ Cardinality(recent) = 10
              /\ \E i \in recent :
                    /\ \A j \in recent : prior[i] <= prior[j]
                    /\ ret.called_at + ret.slept[1] = prior[i] + TicksPerSecond

\* C4's case: the eleventh call found ten admissions within the last second,
\* slept, and was admitted when the oldest of them was one second old.
C4_Witness ==
    /\ ret.op = "wait_if_needed"
    /\ ret.slept # <<>>
    /\ Len(admissions) = 11
    /\ admissions[11] = admissions[1] + TicksPerSecond
    /\ admissions[11] = ret.called_at + ret.slept[1]

(***************************************************************************)
(* Two threads construct the manager at the same time                      *)
(***************************************************************************)
ThreadIds == {1, 2}

\* A thread about to call SupabaseManager(env).
NewThread(env) ==
    [pc |-> "new_test", env |-> env, self |-> <<>>, raised |-> <<>>,
     init_runs |-> 0]

ThreadsInit ==
    /\ osenv \in MgrOsEnvs
    /\ MgrIdle
    /\ now = 0
    /\ ret = NoRet
    /\ pool = <<>>
    /\ RLIdle
    /\ DashIdle
    /\ threads \in {<<NewThread(e1), NewThread(e2)>> :
                       e1 \in {"development", "production"},
                       e2 \in {"development", "production"}}

At(i, pc) == threads # <<>> /\ threads[i].pc = pc

\* What a failed, or a successful, _initialize_client has met in a thread.
ThreadAttemptSeqs(n) ==
    {outs \in AttemptSeqsOf[n] :
        outs[1] = "ok" \/ \A k \in 1..n : outs[k] = "create_raises"}

\* if cls._instance is None:
NewTest(i) ==
    /\ At(i, "new_test")
    /\ threads' = [threads EXCEPT ![i].pc = IF instance = <<>> THEN "new_alloc"
                                                               ELSE "new_return"]
    /\ UNCHANGED <<osenv, mgrVars, now, ret, pool, rlVars, dashVars>>

\* cls._instance = super().__new__(cls)
NewAlloc(i) ==
    /\ At(i, "new_alloc")
    /\ heap' = Append(heap, NewObject)
    /\ instance' = <<Len(heap) + 1>>
    /\ threads' = [threads EXCEPT ![i].pc = "new_env"]
    /\ UNCHANGED <<osenv, returned, now, ret, pool, rlVars, dashVars>>

\* cls._instance.env = env
NewSetEnv(i) ==
    /\ At(i, "new_env")
    /\ heap' = [heap EXCEPT ![instance[1]].env = <<threads[i].env>>]
    /\ threads' = [threads EXCEPT ![i].pc = "new_initialized"]
    /\ UNCHANGED <<osenv, instance, returned, now, ret, pool, rlVars, dashVars>>

\* cls._instance.initialized = False
NewSetInitialized(i) ==
    /\ At(i, "new_initialized")
    /\ heap' = [heap EXCEPT ![instance[1]].initialized = <<FALSE>>]
    /\ threads' = [threads EXCEPT ![i].pc = "new_return"]
    /\ UNCHANGED <<osenv, instance, returned, now, ret, pool, rlVars, dashVars>>

\* return cls._instance
NewReturn(i) ==
    /\ At(i, "new_return")
    /\ threads' = [threads EXCEPT ![i].self = instance, ![i].pc = "init_test"]
    /\ UNCHANGED <<osenv, mgrVars, now, ret, pool, rlVars, dashVars>>

\* if not self.initialized:
InitTest(i) ==
    /\ At(i, "init_test")
    /\ LET m == heap[threads[i].self[1]]
       IN  IF m.initialized = <<>>
           THEN /\ threads' = [threads EXCEPT
                                 ![i].raised = <<Exc("AttributeError", 0)>>,
                                 ![i].pc = "done"]
                /\ UNCHANGED returned
           ELSE IF m.initialized = <<TRUE>>
           THEN /\ threads' = [threads EXCEPT ![i].pc = "done"]
                /\ returned' = returned \cup {threads[i].self[1]}
           ELSE /\ threads' = [threads EXCEPT ![i].pc = "init_body"]
                /\ UNCHANGED returned
    /\ UNCHANGED <<osenv, heap, instance, now, ret, pool, rlVars, dashVars>>

\* self.env = env ... self._initialize_client()
InitBody(i) ==
    /\ At(i, "init_body")
    /\ LET o == threads[i].self[1]
           cfg == get_config(osenv, threads[i].env)
       IN  \E outs \in (IF cfg.raised = <<>>
                        THEN ThreadAttemptSeqs(cfg.value[1].max_retries)
                        ELSE {<<>>}) :
              LET b == init_body(heap[o], threads[i].env, outs, osenv, now)
              IN  /\ heap' = [heap EXCEPT ![o] = b.m]
                  /\ threads' = [threads EXCEPT
                        ![i].raised = b.raised,
                        ![i].init_runs = @ + (IF cfg.raised = <<>> THEN 1 ELSE 0),
                        ![i].pc = IF b.raised = <<>> THEN "init_initialized"
                                                     ELSE "done"]
    /\ UNCHANGED <<osenv, instance, returned, now, ret, pool, rlVars, dashVars>>

\* self.initialized = True
InitSetInitialized(i) ==
    /\ At(i, "init_initialized")
    /\ heap' = [heap EXCEPT ![threads[i].self[1]].initialized = <<TRUE>>]
    /\ returned' = returned \cup {threads[i].self[1]}
    /\ threads' = [threads EXCEPT ![i].pc = "done"]
    /\ UNCHANGED <<osenv, instance, now, ret, pool, rlVars, dashVars>>

ThreadsNext ==
    \E i \in ThreadIds :
        \/ NewTest(i)
        \/ NewAlloc(i)
        \/ NewSetEnv(i)
        \/ NewSetInitialized(i)
        \/ NewReturn(i)
        \/ InitTest(i)
        \/ InitBody(i)
        \/ InitSetInitialized(i)

SpecThreads == ThreadsInit /\ [][ThreadsNext]_vars

\* The number of times the threads have run _initialize_client.
InitializeClientRuns == threads[1].init_runs + threads[2].init_runs

\* C6: when two threads construct SupabaseManager concurrently while no
\* instance exists, only one instance is created and _initialize_client is
\* run only once.
C6_ThreadSafe ==
    threads # <<>> => (Len(heap) <= 1 /\ InitializeClientRuns <= 1)

\* C6, its first half: the two constructions never hand out two objects.
C6_OneInstance == Cardinality(returned) <= 1

\* C6, its second half alone, with a single object.
C6_OneInitialization ==
    (threads # <<>> /\ Len(heap) = 1) => InitializeClientRuns <= 1

(***************************************************************************)
(* dashboard.py: the data fetching functions                               *)
(*                                                                         *)
(* A trips row carries its user_id and the age of created_at in whole      *)
(* days; a profiles row its id (which also stands for full_name and        *)
(* phone_number), its subscription_tier and the age of created_at.         *)
(* Mileage, distance and duration columns are left out of the rows and of  *)
(* the results.  Prices are in cents and quotients are kept as num/den.    *)
(***************************************************************************)
UserIds == {1, 2}
DayAges == {0, 10, 20}
Tiers == {"free", "premium"}
TripRows == [user_id : UserIds, age : DayAges]
ProfileRows == [id : UserIds, subscription_tier : Tiers, age : DayAges]

\* The values the functions return.
Number(n) == [kind |-> "int", n |-> n]
DataFrame(rows) == [kind |-> "DataFrame", rows |-> rows]
Dict(items) == [kind |-> "dict", items |-> items]
Tuple2(frame, n) == [kind |-> "tuple", frame |-> frame, n |-> n]
Ratio(num, den) == [num |-> num, den |-> den]

\* A table of rows in the order Before, rows that tie keeping their order.
SortBy(rows, Before(_, _)) ==
    LET pos(i) == 1 + Cardinality({j \in DOMAIN rows :
                         /\ j # i
                         /\ \/ Before(rows[j], rows[i])
                            \/ ~Before(rows[i], rows[j]) /\ j < i})
    IN  [k \in 1..Len(rows) |-> rows[CHOOSE i \in DOMAIN rows : pos(i) = k]]

Take(rows, n) == SubSeq(rows, 1, IF n < Len(rows) THEN n ELSE Len(rows))
tail(rows, n) == SubSeq(rows, IF n < Len(rows) THEN Len(rows) - n + 1 ELSE 1,
                        Len(rows))
Count(rows, Test(_)) == Len(SelectSeq(rows, Test))
Sorted(S) ==
    [k \in 1..Cardinality(S) |-> CHOOSE x \in S : Cardinality({y \in S : y < x}) = k - 1]
Ages(rows) == {rows[i].age : i \in DOMAIN rows}
MinAge(rows) == CHOOSE a \in Ages(rows) : \A b \in Ages(rows) : a <= b
MaxAge(rows) == CHOOSE a \in Ages(rows) : \A b \in Ages(rows) : a >= b
UsersOf(trips) == {trips[i].user_id : i \in DOMAIN trips}
TripsOf(trips, u) == SelectSeq(trips, LAMBDA r : r.user_id = u)

\* .execute() of the k-th query a function sends through client _supabase:
\* it raises, or answers with the rows the query selects.
execute(_supabase, k, rows) ==
    [raised |-> IF _supabase.fail[k] THEN <<Exc("APIError", k)>> ELSE <<>>,
     data |-> IF _supabase.fail[k] THEN <<>> ELSE rows]

\* How a try block ends after `calls` queries.
Returned(v, calls) == [raised |-> <<>>, value |-> <<v>>, calls |-> calls]
Raised(e, calls) == [raised |-> e, value |-> <<>>, calls |-> calls]

\* except Exception as e: st.error(...); return default
except_Exception(try, default) ==
    IF try.raised # <<>>
    THEN [try EXCEPT !.raised = <<>>, !.value = <<default>>]
    ELSE try

get_active_users_try(_supabase, days) ==
    LET response == execute(_supabase, 1,
                       SelectSeq(_supabase.trips, LAMBDA r : r.age <= days))
    IN  IF response.raised # <<>> THEN Raised(response.raised, 1)
        ELSE IF response.data # <<>>
        THEN Returned(Number(Cardinality(UsersOf(response.data))), 1)
        ELSE Returned(Number(0), 1)

get_active_users(_supabase, days) ==
    except_Exception(get_active_users_try(_supabase, days), Number(0))

\* The row of user u in user_stats after the merge with users_df.
top_user_row(trips, profiles, u) ==
    LET mine == TripsOf(trips, u)
        info == SelectSeq(profiles, LAMBDA q : q.id = u)
    IN  [full_name |-> IF info = <<>> THEN <<>> ELSE <<u>>,
         subscription_tier |-> IF info = <<>> THEN <<>>
                               ELSE <<info[1].subscription_tier>>,
         trip_count |-> Len(mine),
         trips_per_week |-> Ratio(Len(mine) * 7,
                                  IF MaxAge(mine) > 7 THEN MaxAge(mine) ELSE 7),
         days_since_last_trip |-> MinAge(mine)]

get_top_active_users_try(_supabase, limit) ==
    LET trips_response == execute(_supabase, 1, _supabase.trips)
        users_response == execute(_supabase, 2, _supabase.profiles)
        ids == Sorted(UsersOf(trips_response.data))
        user_stats == [k \in 1..Len(ids) |->
                         top_user_row(trips_response.data, users_response.data, ids[k])]
    IN  IF trips_response.raised # <<>> THEN Raised(trips_response.raised, 1)
        ELSE IF trips_response.data = <<>> THEN Returned(DataFrame(<<>>), 1)
        ELSE IF users_response.raised # <<>> THEN Raised(users_response.raised, 2)
        ELSE IF users_response.data = <<>>
        THEN Raised(<<Exc("KeyError", 0)>>, 2)   \* users_df has no column 'id'
        ELSE Returned(DataFrame(Take(SortBy(user_stats,
                          LAMBDA a, b : a.trip_count > b.trip_count), limit)), 2)

get_top_active_users(_supabase, limit) ==
    except_Exception(get_top_active_users_try(_supabase, limit), DataFrame(<<>>))

get_usage_patterns_try(_supabase) ==
    LET response == execute(_supabase, 1,
                       SelectSeq(_supabase.trips, LAMBDA r : r.age <= 30))
    IN  IF response.raised # <<>> THEN Raised(response.raised, 1)
        ELSE IF response.data = <<>> THEN Returned(DataFrame(<<>>), 1)
        ELSE Returned(DataFrame(response.data), 1)

get_usage_patterns(_supabase) ==
    except_Exception(get_usage_patterns_try(_supabase), DataFrame(<<>>))

get_trip_statistics_try(_supabase) ==
    LET response == execute(_supabase, 1, _supabase.trips)
        df == response.data
    IN  IF response.raised # <<>> THEN Raised(response.raised, 1)
        ELSE IF df = <<>> THEN Returned(Dict(<<>>), 1)
        ELSE Returned(Dict(<<[total_trips |-> Len(df),
                              trips_today |-> Count(df, LAMBDA r : r.age = 0),
                              trips_this_week |-> Count(df, LAMBDA r : r.age <= 7),
                              trips_this_month |-> Count(df, LAMBDA r : r.age <= 30)]>>),
                      1)

get_trip_statistics(_supabase) ==
    except_Exception(get_trip_statistics_try(_supabase), Dict(<<>>))

\* The row of profile q in `merged`.
at_risk_row_oldest(trips, q) ==
    LET mine == TripsOf(trips, q.id)
    IN  [full_name |-> <<q.id>>,
         subscription_tier |-> <<q.subscription_tier>>,
         trip_count |-> Len(mine),
         days_since_last_trip |-> IF mine = <<>> THEN <<>> ELSE <<MaxAge(mine)>>]

at_risk_row(trips, q) ==
    LET mine == TripsOf(trips, q.id)
    IN  [full_name |-> <<q.id>>,
         subscription_tier |-> <<q.subscription_tier>>,
         trip_count |-> Len(mine),
         days_since_last_trip |-> IF mine = <<>> THEN <<>> ELSE <<MinAge(mine)>>]

get_users_at_risk_try(_supabase, inactivity_days) ==
    LET trips_resp == execute(_supabase, 1, _supabase.trips)
        profiles_resp == execute(_supabase, 2, _supabase.profiles)
        profiles_df == profiles_resp.data
        merged == [k \in 1..Len(profiles_df) |->
                     at_risk_row(trips_resp.data, profiles_df[k])]
        never_used_count == Count(merged, LAMBDA r : r.days_since_last_trip = <<>>)
        at_risk == SelectSeq(merged, LAMBDA r :
                       /\ r.days_since_last_trip # <<>>
                       /\ r.days_since_last_trip[1] > inactivity_days)
    IN  IF trips_resp.raised # <<>> THEN Raised(trips_resp.raised, 1)
        ELSE IF profiles_resp.raised # <<>> THEN Raised(profiles_resp.raised, 2)
        ELSE IF profiles_df = <<>> THEN Returned(Tuple2(DataFrame(<<>>), 0), 2)
        ELSE Returned(Tuple2(DataFrame(SortBy(at_risk, LAMBDA a, b :
                   \/ a.days_since_last_trip[1] > b.days_since_last_trip[1]
                   \/ /\ a.days_since_last_trip = b.days_since_last_trip
                      /\ a.trip_count > b.trip_count)),
                 never_used_count), 2)

get_users_at_risk(_supabase, inactivity_days) ==
    except_Exception(get_users_at_risk_try(_supabase, inactivity_days),
                     Tuple2(DataFrame(<<>>), 0))

\* A subscription_tier that is NULL in the table; value_counts() skips it.
None == "None"

\* The monthly price of each tier, in cents.
pricing ==
    [free |-> 0, basic |-> 999, premium |-> 1999, pro |-> 3999, enterprise |-> 9999]

RECURSIVE Sum(_, _)
Sum(f, S) ==
    IF S = {} THEN 0
    ELSE LET x == CHOOSE y \in S : TRUE IN f[x] + Sum(f, S \ {x})

get_revenue_metrics_try(_supabase) ==
    LET response == execute(_supabase, 1, _supabase.profiles)
        df == response.data
        present == {df[i].subscription_tier : i \in DOMAIN df} \ {None}
        tier_counts == [t \in present |->
                          Count(df, LAMBDA r : r.subscription_tier = t)]
        count(t) == IF t \in present THEN tier_counts[t] ELSE 0
        mrr == Sum([t \in DOMAIN pricing |-> count(t) * pricing[t]], DOMAIN pricing)
        total_users == Len(df)
    IN  IF response.raised # <<>> THEN Raised(response.raised, 1)
        ELSE IF df = <<>> THEN Returned(Dict(<<>>), 1)
        ELSE Returned(Dict(<<[mrr |-> mrr,
                              arr |-> mrr * 12,
                              arpu |-> Ratio(mrr, total_users),
                              total_users |-> total_users,
                              tier_distribution |->
                                 [t \in DOMAIN pricing |->
                                    [count |-> count(t),
                                     revenue |-> count(t) * pricing[t],
                                     percentage |-> Ratio(count(t) * 100, total_users)]],
                              tier_counts |-> tier_counts]>>), 1)

get_revenue_metrics(_supabase) ==
    except_Exception(get_revenue_metrics_try(_supabase), Dict(<<>>))

\* calculate_period_growth whose previous period includes its end.
calculate_period_growth_overlap(df, days_current, days_previous) ==
    LET current_count == Count(df, LAMBDA r : r.age <= days_current)
        previous_count == Count(df, LAMBDA r :
                              r.age <= days_previous /\ r.age >= days_current)
    IN  [current |-> current_count,
         previous |-> previous_count,
         growth_rate |-> IF previous_count > 0
                         THEN Ratio((current_count - previous_count) * 100,
                                    previous_count)
                         ELSE Ratio(IF current_count > 0 THEN 100 ELSE 0, 1)]

calculate_period_growth(df, days_current, days_previous) ==
    LET current_count == Count(df, LAMBDA r : r.age <= days_current)
        previous_count == Count(df, LAMBDA r :
                              r.age <= days_previous /\ r.age > days_current)
    IN  [current |-> current_count,
         previous |-> previous_count,
         growth_rate |-> IF previous_count > 0
                         THEN Ratio((current_count - previous_count) * 100,
                                    previous_count)
                         ELSE Ratio(IF current_count > 0 THEN 100 ELSE 0, 1)]

NoGrowth == [current |-> 0, previous |-> 0, growth_rate |-> Ratio(0, 1)]

get_growth_metrics_try(_supabase) ==
    LET profiles == execute(_supabase, 1, _supabase.profiles)
        trips == execute(_supabase, 2, _supabase.trips)
        users_df == profiles.data
        trips_df == trips.data
        growth(d1, d2) ==
            [users |-> calculate_period_growth(users_df, d1, d2),
             trips |-> IF trips_df # <<>>
                       THEN calculate_period_growth(trips_df, d1, d2)
                       ELSE NoGrowth]
        dates == Sorted(Ages(users_df))
        daily_signups ==
            [k \in 1..Len(dates) |->
                LET a == dates[Len(dates) + 1 - k]
                IN  [date |-> a,
                     signups |-> Count(users_df, LAMBDA r : r.age = a),
                     cumulative |-> Count(users_df, LAMBDA r : r.age >= a)]]
    IN  IF profiles.raised # <<>> THEN Raised(profiles.raised, 1)
        ELSE IF trips.raised # <<>> THEN Raised(trips.raised, 2)
        ELSE IF users_df = <<>> THEN Returned(Dict(<<>>), 2)
        ELSE Returned(Dict(<<[wow |-> growth(7, 14),
                              mom |-> growth(30, 60),
                              qoq |-> growth(90, 180),
                              daily_signups |-> tail(daily_signups, 30)]>>), 2)

\* get_growth_metrics without its except clause.
get_growth_metrics_unguarded(_supabase) ==
    get_growth_metrics_try(_supabase)

get_growth_metrics(_supabase) ==
    except_Exception(get_growth_metrics_try(_supabase), Dict(<<>>))

get_recent_trips_try(_supabase, limit) ==
    LET trips == execute(_supabase, 1,
                    Take(SortBy(_supabase.trips, LAMBDA a, b : a.age < b.age), limit))
        user_ids == UsersOf(trips.data)
        profiles == execute(_supabase, 2,
                       SelectSeq(_supabase.profiles, LAMBDA q : q.id \in user_ids))
        enhanced_trips ==
            [k \in 1..Len(trips.data) |->
                LET trip == trips.data[k]
                    user_info == SelectSeq(profiles.data, LAMBDA q : q.id = trip.user_id)
                IN  [time |-> trip.age,
                     user |-> IF user_info = <<>> THEN <<>> ELSE <<trip.user_id>>,
                     tier |-> IF user_info = <<>> THEN "free"
                              ELSE user_info[1].subscription_tier]]
    IN  IF trips.raised # <<>> THEN Raised(trips.raised, 1)
        ELSE IF trips.data = <<>> THEN Returned(DataFrame(<<>>), 1)
        ELSE IF profiles.raised # <<>> THEN Raised(profiles.raised, 2)
        ELSE Returned(DataFrame(enhanced_trips), 2)

get_recent_trips(_supabase, limit) ==
    except_Exception(get_recent_trips_try(_supabase, limit), DataFrame(<<>>))

(***************************************************************************)
(* The dashboard fetching from a backend that may fail                     *)
(***************************************************************************)
SeqsUpTo(S, n) == UNION {[1..k -> S] : k \in 0..n}

\* The profiles table: id is its key.
ProfileTables ==
    {t \in SeqsUpTo(ProfileRows, Cardinality(UserIds)) :
        \A i, j \in DOMAIN t : i # j => t[i].id # t[j].id}

DashInit ==
    /\ osenv = Unset
    /\ MgrIdle
    /\ now = 0
    /\ ret = NoRet
    /\ pool = <<>>
    /\ RLIdle
    /\ threads = <<>>
    /\ dash = <<>>
    /\ backend \in [trips : SeqsUpTo(TripRows, MaxTrips), profiles : ProfileTables]

\* Which of a function's queries fail.
Failures == [1..2 -> BOOLEAN]

\* The client handed to a fetch function.
Client(fail) ==
    [trips |-> backend.trips, profiles |-> backend.profiles, fail |-> fail]

\* What is kept of a fetch: the function, the failures it met, its outcome.
Fetched(fn, fail, r) == <<[fn |-> fn, fail |-> fail] @@ r>>

outsideDash == <<osenv, mgrVars, now, ret, pool, rlVars, threads, backend>>

GetActiveUsers ==
    /\ dash = <<>>
    /\ \E fail \in Failures, days \in {7, 30} :
           dash' = Fetched("get_active_users", fail, get_active_users(Client(fail), days))
    /\ UNCHANGED outsideDash

GetTopActiveUsers ==
    /\ dash = <<>>
    /\ \E fail \in Failures, limit \in {1, 10} :
           dash' = Fetched("get_top_active_users", fail,
                   get_top_active_users(Client(fail), limit))
    /\ UNCHANGED outsideDash

GetUsagePatterns ==
    /\ dash = <<>>
    /\ \E fail \in Failures :
           dash' = Fetched("get_usage_patterns", fail, get_usage_patterns(Client(fail)))
    /\ UNCHANGED outsideDash

GetTripStatistics ==
    /\ dash = <<>>
    /\ \E fail \in Failures :
           dash' = Fetched("get_trip_statistics", fail, get_trip_statistics(Client(fail)))
    /\ UNCHANGED outsideDash

GetUsersAtRisk ==
    /\ dash = <<>>
    /\ \E fail \in Failures :
           dash' = Fetched("get_users_at_risk", fail, get_users_at_risk(Client(fail), 14))
    /\ UNCHANGED outsideDash

GetRevenueMetrics ==
    /\ dash = <<>>
    /\ \E fail \in Failures :
           dash' = Fetched("get_revenue_metrics", fail, get_revenue_metrics(Client(fail)))
    /\ UNCHANGED outsideDash

GetGrowthMetrics ==
    /\ dash = <<>>
    /\ \E fail \in Failures :
           dash' = Fetched("get_growth_metrics", fail, get_growth_metrics(Client(fail)))
    /\ UNCHANGED outsideDash

GetRecentTrips ==
    /\ dash = <<>>
    /\ \E fail \in Failures, limit \in {1, 20} :
           dash' = Fetched("get_recent_trips", fail, get_recent_trips(Client(fail), limit))
    /\ UNCHANGED outsideDash

\* The page has used the result; the script runs again.
Rerun ==
    /\ dash # <<>>
    /\ dash' = <<>>
    /\ UNCHANGED outsideDash

DashNext ==
    \/ GetActiveUsers
    \/ GetTopActiveUsers
    \/ GetUsagePatterns
    \/ GetTripStatistics
    \/ GetUsersAtRisk
    \/ GetRevenueMetrics
    \/ GetGrowthMetrics
    \/ GetRecentTrips
    \/ Rerun

SpecDash == DashInit /\ [][DashNext]_vars

\* The empty default the claim gives each function.
EmptyDefault(fn) ==
    CASE fn = "get_active_users" -> Number(0)
      [] fn \in {"get_top_active_users", "get_usage_patterns", "get_recent_trips"}
            -> DataFrame(<<>>)
      [] fn \in {"get_trip_statistics", "get_revenue_metrics", "get_growth_metrics"}
            -> Dict(<<>>)
      [] fn = "get_users_at_risk" -> Tuple2(DataFrame(<<>>), 0)

\* What each function gives on a backend without rows that answers.
OnNoRows(fn) ==
    LET c == [trips |-> <<>>, profiles |-> <<>>, fail |-> <<FALSE, FALSE>>]
    IN  CASE fn = "get_active_users" -> get_active_users(c, 30)
          [] fn = "get_top_active_users" -> get_top_active_users(c, 10)
          [] fn = "get_usage_patterns" -> get_usage_patterns(c)
          [] fn = "get_trip_statistics" -> get_trip_statistics(c)
          [] fn = "get_users_at_risk" -> get_users_at_risk(c, 14)
          [] fn = "get_revenue_metrics" -> get_revenue_metrics(c)
          [] fn = "get_growth_metrics" -> get_growth_metrics(c)
          [] fn = "get_recent_trips" -> get_recent_trips(c, 20)

\* C10: a fetch function never propagates an exception; when a query it
\* sent raised, it returns its empty default (0, an empty DataFrame, {} or
\* (empty DataFrame, 0)), which is also what it returns when the backend has
\* no rows.
C10_ContainsFailures ==
    dash # <<>> =>
        LET d == dash[1]
        IN  /\ d.raised = <<>>
            /\ d.value # <<>>
            /\ (\E k \in 1..d.calls : d.fail[k]) =>
                  /\ d.value[1] = EmptyDefault(d.fn)
                  /\ OnNoRows(d.fn).raised = <<>>
                  /\ OnNoRows(d.fn).value = d.value

\* C10's case: the second query of get_growth_metrics raised although the
\* profiles table has rows, and {} came back.
C10_Witness ==
    /\ dash # <<>>
    /\ dash[1].fn = "get_growth_metrics"
    /\ dash[1].fail = <<FALSE, TRUE>>
    /\ dash[1].calls = 2
    /\ backend.profiles # <<>>
    /\ dash[1].value = <<Dict(<<>>)>>

(***************************************************************************)
(* utils.py: MetricsCalculator.calculate_engagement_score                  *)
(*                                                                         *)
(* The floats of the code are exact quotients here.                        *)
(***************************************************************************)
RECURSIVE GCD(_, _)
GCD(a, b) == IF b = 0 THEN (IF a < 0 THEN -a ELSE a) ELSE GCD(b, a % b)

\* The quotient num/den (den > 0) in lowest terms.
Quot(num, den) ==
    LET g == GCD(num, den) IN Ratio(num \div g, den \div g)

QuotAdd(a, b) == Quot(a.num * b.den + b.num * a.den, a.den * b.den)
QuotLeq(a, b) == a.num * b.den <= b.num * a.den
QuotMin(a, b) == IF QuotLeq(a, b) THEN a ELSE b
QuotMax(a, b) == IF QuotLeq(a, b) THEN b ELSE a
QuotTimes(a, k) == Quot(a.num * k, a.den)

\* round(x, 1) in tenths: the nearest tenth; a float that stands for an exact
\* tie may lie on either side of it.
round_1(x) ==
    LET lo == (x.num * 10) \div x.den
        twice == 2 * ((x.num * 10) % x.den)
    IN  IF twice < x.den THEN {lo}
        ELSE IF twice > x.den THEN {lo + 1}
        ELSE {lo, lo + 1}

engagement_components(trip_count, days_active, last_activity_days, total_distance) ==
    [trip_score |->
        QuotTimes(QuotMin(Quot(trip_count, 50), Quot(1, 1)), 30),
     frequency_score |->
        QuotTimes(QuotMin(Quot(trip_count * 10,
                               IF days_active > 1 THEN days_active ELSE 1),
                          Quot(1, 1)), 25),
     recency_score |->
        QuotTimes(QuotMax(Quot(0, 1), Quot(30 - last_activity_days, 30)), 25),
     distance_score |->
        QuotTimes(QuotMin(Quot(total_distance, 1000), Quot(1, 1)), 20)]

\* The values calculate_engagement_score can return, in tenths.
calculate_engagement_score(trip_count, days_active, last_activity_days, total_distance) ==
    LET c == engagement_components(trip_count, days_active, last_activity_days,
                                   total_distance)
        total_score == QuotAdd(QuotAdd(c.trip_score, c.frequency_score),
                               QuotAdd(c.recency_score, c.distance_score))
    IN  round_1(total_score)

TripCounts == {-10, 0, 1, 7, 49, 50, 60}
DaysActive == {-1, 0, 1, 7, 30}
LastActivityDays == {-30, -1, 0, 1, 29, 30, 45}
TotalDistances == {-100, 0, 1, 999, 1000, 5000}

ScoreInit ==
    /\ osenv = Unset
    /\ MgrIdle
    /\ now = 0
    /\ ret = NoRet
    /\ pool = <<>>
    /\ RLIdle
    /\ RestIdle

CalculateEngagementScore ==
    /\ dash = <<>>
    /\ \E tc \in TripCounts, da \in DaysActive, la \in LastActivityDays,
          td \in TotalDistances :
          \E tenths \in calculate_engagement_score(tc, da, la, td) :
             dash' = <<[fn |-> "calculate_engagement_score",
                        trip_count |-> tc, days_active |-> da,
                        last_activity_days |-> la, total_distance |-> td,
                        components |-> engagement_components(tc, da, la, td),
                        tenths |-> tenths]>>
    /\ UNCHANGED outsideDash

ScoreNext == CalculateEngagementScore \/ Rerun

SpecScore == ScoreInit /\ [][ScoreNext]_vars

InRange(q, max) == QuotLeq(Quot(0, 1), q) /\ QuotLeq(q, Quot(max, 1))

\* C11: for every value of its four arguments calculate_engagement_score
\* returns a score between 0 and 100, and its trips, frequency, recency and
\* distance components lie between 0 and 30, 25, 25 and 20.
C11_ScoreInRange ==
    dash # <<>> =>
        /\ 0 <= dash[1].tenths /\ dash[1].tenths <= 1000
        /\ InRange(dash[1].components.trip_score, 30)
        /\ InRange(dash[1].components.frequency_score, 25)
        /\ InRange(dash[1].components.recency_score, 25)
        /\ InRange(dash[1].components.distance_score, 20)

\* C11 for arguments that are not negative.
C11_NonNegativeArguments ==
    (/\ dash # <<>>
     /\ dash[1].trip_count >= 0
     /\ dash[1].last_activity_days >= 0
     /\ dash[1].total_distance >= 0) => C11_ScoreInRange

(***************************************************************************)
(* get_growth_metrics on records at the ends of its periods                *)
(***************************************************************************)
GrowthAges == {7, 14, 15, 30, 60, 90, 180, 181}

\* Up to two profiles, in the order of their ids.
GrowthProfiles ==
    {<<>>} \cup {<<[id |-> 1, subscription_tier |-> "free", age |-> a]>> :
                    a \in GrowthAges}
           \cup {<<[id |-> 1, subscription_tier |-> "free", age |-> a],
                   [id |-> 2, subscription_tier |-> "free", age |-> b]>> :
                    a \in GrowthAges, b \in GrowthAges}

GrowthInit ==
    /\ osenv = Unset
    /\ MgrIdle
    /\ now = 0
    /\ ret = NoRet
    /\ pool = <<>>
    /\ RLIdle
    /\ threads = <<>>
    /\ dash = <<>>
    /\ backend \in [trips : SeqsUpTo([user_id : {1}, age : GrowthAges], MaxTrips),
                    profiles : GrowthProfiles]

GrowthNext == GetGrowthMetrics \/ Rerun

SpecGrowth == GrowthInit /\ [][GrowthNext]_vars

\* The records of a table created in the last d1 days, and in the d2 - d1
\* days before them.
CurrentOf(rows, d1) == {i \in DOMAIN rows : rows[i].age <= d1}
PreviousOf(rows, d1, d2) == {i \in DOMAIN rows : d1 < rows[i].age /\ rows[i].age <= d2}

\* What the claim says of one entry for a table and a pair of periods.
GrowthEntryOk(e, rows, d1, d2) ==
    LET c == Cardinality(CurrentOf(rows, d1))
        p == Cardinality(PreviousOf(rows, d1, d2))
    IN  /\ e.current = c
        /\ e.previous = p
        /\ e.growth_rate.den > 0
        /\ p > 0 => e.growth_rate.num * p = (c - p) * 100 * e.growth_rate.den
        /\ (p = 0 /\ c > 0) => e.growth_rate.num = 100 * e.growth_rate.den
        /\ (p = 0 /\ c = 0) => e.growth_rate.num = 0

GrowthPeriods == {<<"wow", 7, 14>>, <<"mom", 30, 60>>, <<"qoq", 90, 180>>}

\* C12: for the pairs (7,14), (30,60), (90,180), current counts the records
\* with created_at >= now - d_current, previous those with now - d_previous
\* <= created_at < now - d_current; growth_rate is (current - previous) /
\* previous * 100, or 100 when only previous is 0, or 0 when both are; with
\* no trips every trips entry is 0, 0, 0.
C12_GrowthMetrics ==
    (/\ dash # <<>>
     /\ dash[1].fn = "get_growth_metrics"
     /\ dash[1].fail = <<FALSE, FALSE>>
     /\ backend.profiles # <<>>) =>
        /\ dash[1].value # <<>>
        /\ dash[1].value[1].items # <<>>
        /\ \A per \in GrowthPeriods :
              LET e == dash[1].value[1].items[1][per[1]]
              IN  /\ GrowthEntryOk(e.users, backend.profiles, per[2], per[3])
                  /\ GrowthEntryOk(e.trips, backend.trips, per[2], per[3])
                  /\ backend.trips = <<>> =>
                        /\ e.trips.current = 0
                        /\ e.trips.previous = 0
                        /\ e.trips.growth_rate.num = 0

\* C12's case: one profile created exactly 7 days ago and one exactly 14 days
\* ago are counted once each, in current and in previous, and there is no
\* trip.
C12_Witness ==
    /\ dash # <<>>
    /\ dash[1].fn = "get_growth_metrics"
    /\ dash[1].fail = <<FALSE, FALSE>>
    /\ Ages(backend.profiles) = {7, 14}
    /\ backend.trips = <<>>
    /\ dash[1].value # <<>>
    /\ dash[1].value[1].items # <<>>
    /\ dash[1].value[1].items[1].wow.users.current = 1
    /\ dash[1].value[1].items[1].wow.users.previous = 1

(***************************************************************************)
(* get_revenue_metrics on profiles of any subscription_tier                *)
(*                                                                         *)
(* subscription_tier is a TEXT column without constraint: besides the five *)
(* priced tiers a row can hold another string or NULL.                     *)
(***************************************************************************)
MaxProfiles == 3
RevenueTiers == DOMAIN pricing \cup {"Premium", None}

\* Profile k has id k.
RevenueProfiles ==
    UNION {{[k \in 1..n |-> [id |-> k, subscription_tier |-> t[k], age |-> 0]] :
               t \in [1..n -> RevenueTiers]} : n \in 0..MaxProfiles}

RevenueInit ==
    /\ osenv = Unset
    /\ MgrIdle
    /\ now = 0
    /\ ret = NoRet
    /\ pool = <<>>
    /\ RLIdle
    /\ threads = <<>>
    /\ dash = <<>>
    /\ backend \in [trips : {<<>>}, profiles : RevenueProfiles]

RevenueNext == GetRevenueMetrics \/ Rerun

SpecRevenue == RevenueInit /\ [][RevenueNext]_vars

\* The profiles of tier t.
InTier(rows, t) == {i \in DOMAIN rows : rows[i].subscription_tier = t}

\* A revenue result for a table that has rows.
RevenueOf == dash[1].value[1].items[1]
RevenueComputed ==
    /\ dash # <<>>
    /\ dash[1].fn = "get_revenue_metrics"
    /\ ~dash[1].fail[1]
    /\ backend.profiles # <<>>

\* The parts of C13 about mrr, arr and arpu.
RevenueSums ==
    LET r == RevenueOf
        n == [t \in DOMAIN pricing |-> Cardinality(InTier(backend.profiles, t))]
    IN  /\ r.mrr = Sum([t \in DOMAIN pricing |-> n[t] * pricing[t]], DOMAIN pricing)
        /\ r.arr = 12 * r.mrr
        /\ r.total_users = Len(backend.profiles)
        /\ r.arpu.den > 0
        /\ r.arpu.num * r.total_users = r.mrr * r.arpu.den
        /\ r.mrr = Sum([t \in DOMAIN pricing |-> r.tier_distribution[t].revenue],
                       DOMAIN pricing)

\* The last part of C13: the counts of tier_distribution add up to
\* total_users.
RevenueEveryProfileAttributed ==
    LET r == RevenueOf
    IN  Sum([t \in DOMAIN pricing |-> r.tier_distribution[t].count], DOMAIN pricing)
           = r.total_users

\* C13: for any non-empty set of profiles mrr is the sum over the five priced
\* tiers of count times price, arr = 12 * mrr, arpu = mrr / total_users with
\* total_users counting every profile, mrr is the sum of the tier_distribution
\* revenues, and the tier_distribution counts sum to total_users.
C13_RevenueMetrics ==
    RevenueComputed =>
        /\ dash[1].value # <<>>
        /\ dash[1].value[1].items # <<>>
        /\ RevenueSums
        /\ RevenueEveryProfileAttributed

\* C13 without its last part.
C13_Sums == RevenueComputed => RevenueSums

\* C13 for tables in which every subscription_tier is a priced tier.
C13_PricedTiersOnly ==
    (/\ RevenueComputed
     /\ \A i \in DOMAIN backend.profiles :
           backend.profiles[i].subscription_tier \in DOMAIN pricing)
        => C13_RevenueMetrics

(***************************************************************************)
(* dashboard.py: get_user_retention_analysis                               *)
(*                                                                         *)
(* Rows of auth.users and users carry id and email_confirmed_at (an        *)
(* Optional age in days: NULL parses to NaT); dates are whole days, day 0  *)
(* (today) being a Monday.  Percentages are in tenths, as round(x, 1)      *)
(* leaves them.                                                            *)
(***************************************************************************)
Tuple3(metrics, cohort_df, activation_dist) ==
    [kind |-> "tuple3", metrics |-> metrics, cohort_df |-> cohort_df,
     activation_dist |-> activation_dist]

\* round(num / den * 100, 1) in tenths, an exact tie going to the even tenth.
percent_round_1(num, den) ==
    LET r == round_1(Quot(num * 100, den))
    IN  IF Cardinality(r) = 1 THEN CHOOSE x \in r : TRUE
        ELSE CHOOSE x \in r : x % 2 = 0

\* The registration age of a row of users_df: NaT rows are dropped later.
registration_of(table_source, row) ==
    IF table_source = "profiles" THEN <<row.age>> ELSE row.email_confirmed_at

\* x - Timedelta(days=x.weekday()) for the date `age` days ago, as a day
\* number (today is 0).
registration_week(age) == (0 - age) - ((0 - age) % 7)

\* The rows of user_data: the users with a valid date, each with the days
\* from registration to the first trip when the user has a trip.
retention_user_data(table_source, df, trips) ==
    LET valid == SelectSeq(df, LAMBDA r : registration_of(table_source, r) # <<>>)
    IN  [k \in 1..Len(valid) |->
            LET reg == registration_of(table_source, valid[k])[1]
                mine == TripsOf(trips, valid[k].id)
            IN  [id |-> valid[k].id,
                 registration_age |-> reg,
                 days_to_first_trip |-> IF mine = <<>> THEN <<>>
                                        ELSE <<reg - MaxAge(mine)>>]]

\* The day 1 retention counting the first trips made within 7 days.
retention_metrics_of_week(user_data, users_with_trips) ==
    LET within(n) == Count(users_with_trips,
                           LAMBDA r : r.days_to_first_trip[1] <= n)
    IN  [day_1_retention |-> percent_round_1(within(7), Len(users_with_trips)),
         day_7_retention |-> percent_round_1(within(1), Len(users_with_trips)),
         day_30_retention |-> percent_round_1(within(30), Len(users_with_trips)),
         total_registered |-> Len(user_data),
         users_with_trips |-> Len(users_with_trips),
         activation_rate |-> percent_round_1(Len(users_with_trips), Len(user_data))]

retention_metrics_of(user_data, users_with_trips) ==
    LET within(n) == Count(users_with_trips,
                           LAMBDA r : r.days_to_first_trip[1] <= n)
    IN  [day_1_retention |-> percent_round_1(within(1), Len(users_with_trips)),
         day_7_retention |-> percent_round_1(within(7), Len(users_with_trips)),
         day_30_retention |-> percent_round_1(within(30), Len(users_with_trips)),
         total_registered |-> Len(user_data),
         users_with_trips |-> Len(users_with_trips),
         activation_rate |-> percent_round_1(Len(users_with_trips), Len(user_data))]

retention_cohorts(user_data, users_with_trips) ==
    LET weeks == Sorted({registration_week(user_data[i].registration_age) :
                            i \in DOMAIN user_data})
    IN  [k \in 1..Len(weeks) |->
            LET total == Count(user_data,
                           LAMBDA r : registration_week(r.registration_age) = weeks[k])
                activated == Count(users_with_trips,
                           LAMBDA r : registration_week(r.registration_age) = weeks[k])
            IN  [cohort_week |-> weeks[k],
                 total_users |-> total,
                 activated_users |-> activated,
                 activation_rate |-> Ratio(activated * 100, total)]]

retention_activation_dist(users_with_trips) ==
    LET days == Sorted({users_with_trips[i].days_to_first_trip[1] :
                           i \in DOMAIN users_with_trips})
    IN  Take([k \in 1..Len(days) |->
                 [days_to_first_trip |-> days[k],
                  count |-> Count(users_with_trips,
                               LAMBDA r : r.days_to_first_trip[1] = days[k])]], 30)

EmptyRetention == Tuple3(Dict(<<>>), DataFrame(<<>>), Dict(<<>>))

get_user_retention_analysis_try(_supabase) ==
    LET auth == execute(_supabase, 1, _supabase.auth_users)
        df1 == IF auth.raised = <<>> THEN auth.data ELSE <<>>
        users == execute(_supabase, 2, _supabase.users)
        got2 == df1 = <<>> /\ users.raised = <<>>
        df2 == IF got2 THEN users.data ELSE df1
        profiles == execute(_supabase, 3, _supabase.profiles)
        got3 == df2 = <<>> /\ profiles.raised = <<>>
        users_df == IF got3 THEN profiles.data ELSE df2
        table_source == IF got3 THEN "profiles"
                        ELSE IF got2 THEN "users"
                        ELSE IF auth.raised = <<>> THEN "auth.users"
                        ELSE "none"
        trips_resp == execute(_supabase, 4, _supabase.trips)
        calls == 2 + (IF df1 = <<>> THEN 1 ELSE 0) + (IF df2 = <<>> THEN 1 ELSE 0)
        user_data == retention_user_data(table_source, users_df, trips_resp.data)
        users_with_trips == SelectSeq(user_data,
                                LAMBDA r : r.days_to_first_trip # <<>>)
        out(r) == [table_source |-> table_source] @@ r
    IN  IF trips_resp.raised # <<>> THEN out(Raised(trips_resp.raised, calls))
        ELSE IF users_df = <<>> THEN out(Returned(EmptyRetention, calls))
        ELSE IF users_with_trips = <<>>
        THEN out(Returned(Tuple3(Dict(<<[day_1_retention |-> 0,
                                        day_7_retention |-> 0,
                                        day_30_retention |-> 0,
                                        total_registered |-> Len(user_data),
                                        users_with_trips |-> 0,
                                        activation_rate |-> 0]>>),
                                DataFrame(<<>>), Dict(<<>>)), calls))
        ELSE out(Returned(Tuple3(
                     Dict(<<retention_metrics_of(user_data, users_with_trips)>>),
                     DataFrame(retention_cohorts(user_data, users_with_trips)),
                     Dict(<<retention_activation_dist(users_with_trips)>>)), calls))

get_user_retention_analysis(_supabase) ==
    except_Exception(get_user_retention_analysis_try(_supabase), EmptyRetention)

(***************************************************************************)
(* The retention analysis over its three sources of users                  *)
(***************************************************************************)
\* email_confirmed_at or created_at of every user with a date: 40 days ago.
Registered == <<40>>
FirstTripAges == {41, 39, 33, 32, 10, 9}

AuthUser(id, confirmed) == [id |-> id, email_confirmed_at |-> confirmed]
RetentionProfile(id) == [id |-> id, subscription_tier |-> "free", age |-> Registered[1]]

AuthTables ==
    {<<>>,
     <<AuthUser(1, Registered)>>,
     <<AuthUser(1, <<>>)>>,
     <<AuthUser(1, Registered), AuthUser(2, Registered)>>,
     <<AuthUser(1, Registered), AuthUser(2, <<>>)>>}
UsersTables ==
    {<<>>,
     <<AuthUser(1, Registered)>>,
     <<AuthUser(1, Registered), AuthUser(2, Registered)>>}
RetentionProfileTables ==
    {<<>>, <<RetentionProfile(1)>>, <<RetentionProfile(1), RetentionProfile(2)>>}

RetentionInit ==
    /\ osenv = Unset
    /\ MgrIdle
    /\ now = 0
    /\ ret = NoRet
    /\ pool = <<>>
    /\ RLIdle
    /\ threads = <<>>
    /\ dash = <<>>
    /\ backend \in [trips : SeqsUpTo([user_id : UserIds, age : FirstTripAges], MaxTrips),
                    profiles : RetentionProfileTables,
                    auth_users : AuthTables,
                    users : UsersTables]

GetUserRetentionAnalysis ==
    /\ dash = <<>>
    /\ \E fail \in [1..4 -> BOOLEAN] :
           dash' = Fetched("get_user_retention_analysis", fail,
                       get_user_retention_analysis(
                           [trips |-> backend.trips, profiles |-> backend.profiles,
                            auth_users |-> backend.auth_users,
                            users |-> backend.users, fail |-> fail]))
    /\ UNCHANGED outsideDash

RetentionNext == GetUserRetentionAnalysis \/ Rerun

SpecRetention == RetentionInit /\ [][RetentionNext]_vars

\* The table users_df came from, and its rows with a registration date.
SourceRows ==
    CASE dash[1].table_source = "auth.users" -> backend.auth_users
      [] dash[1].table_source = "users" -> backend.users
      [] dash[1].table_source = "profiles" -> backend.profiles
      [] OTHER -> <<>>
RegisteredUsers ==
    {i \in DOMAIN SourceRows :
        registration_of(dash[1].table_source, SourceRows[i]) # <<>>}
RegistrationAgeOf(i) == registration_of(dash[1].table_source, SourceRows[i])[1]

\* The trips of registered user i, and whether its first trip is at most n
\* days after its registration.
TripsOfUser(i) ==
    {k \in DOMAIN backend.trips : backend.trips[k].user_id = SourceRows[i].id}
FirstTripWithin(i, n) ==
    \E k \in TripsOfUser(i) :
        /\ \A l \in TripsOfUser(i) : backend.trips[l].age <= backend.trips[k].age
        /\ RegistrationAgeOf(i) - backend.trips[k].age <= n

\* tenths is num / den * 100 rounded to one decimal.
IsPercentOf(tenths, num, den) ==
    /\ 2 * (tenths * den - 1000 * num) <= den
    /\ 2 * (1000 * num - tenths * den) <= den

\* C14: when a registered user has a trip, day_N_retention (N = 1, 7, 30) is
\* the percentage of the users with trips whose first trip is at most N days
\* after registration, so 0 <= day_1 <= day_7 <= day_30 <= 100, and
\* activation_rate = users_with_trips / total_registered * 100 with
\* users_with_trips <= total_registered; when none has a trip the four
\* values are 0 and total_registered is still reported.
C14_Retention ==
    (/\ dash # <<>>
     /\ dash[1].fn = "get_user_retention_analysis"
     /\ ~dash[1].fail[4]
     /\ SourceRows # <<>>) =>
        LET with == {i \in RegisteredUsers : TripsOfUser(i) # {}}
            k == Cardinality(with)
            n == Cardinality(RegisteredUsers)
            within(d) == Cardinality({i \in with : FirstTripWithin(i, d)})
        IN  /\ dash[1].value # <<>>
            /\ dash[1].value[1].metrics.items # <<>>
            /\ LET m == dash[1].value[1].metrics.items[1]
               IN  /\ m.total_registered = n
                   /\ m.users_with_trips = k
                   /\ k <= n
                   /\ k > 0 =>
                         /\ IsPercentOf(m.day_1_retention, within(1), k)
                         /\ IsPercentOf(m.day_7_retention, within(7), k)
                         /\ IsPercentOf(m.day_30_retention, within(30), k)
                         /\ 0 <= m.day_1_retention
                         /\ m.day_1_retention <= m.day_7_retention
                         /\ m.day_7_retention <= m.day_30_retention
                         /\ m.day_30_retention <= 1000
                         /\ IsPercentOf(m.activation_rate, k, n)
                   /\ k = 0 =>
                         /\ m.day_1_retention = 0
                         /\ m.day_7_retention = 0
                         /\ m.day_30_retention = 0
                         /\ m.activation_rate = 0

\* C14's case: auth.users and users cannot be read, both profiles have trips,
\* one first trip 7 days and the other 30 days after registration.
C14_Witness ==
    /\ dash # <<>>
    /\ dash[1].fn = "get_user_retention_analysis"
    /\ dash[1].fail = <<TRUE, TRUE, FALSE, FALSE>>
    /\ dash[1].table_source = "profiles"
    /\ backend.trips = <<[user_id |-> 1, age |-> 33], [user_id |-> 2, age |-> 10]>>
    /\ dash[1].value # <<>>
    /\ dash[1].value[1].metrics.items # <<>>
    /\ dash[1].value[1].metrics.items[1].day_1_retention = 0
    /\ dash[1].value[1].metrics.items[1].day_7_retention = 500
    /\ dash[1].value[1].metrics.items[1].day_30_retention = 1000
    /\ dash[1].value[1].metrics.items[1].activation_rate = 1000

\* C14's other case: a registered user and no trip at all.
C14_NoTrips ==
    /\ dash # <<>>
    /\ dash[1].fn = "get_user_retention_analysis"
    /\ ~dash[1].fail[4]
    /\ backend.trips = <<>>
    /\ dash[1].value # <<>>
    /\ dash[1].value[1].metrics.items # <<>>
    /\ dash[1].value[1].metrics.items[1].total_registered = 2
    /\ dash[1].value[1].metrics.items[1].activation_rate = 0


(***************************************************************************)
(* get_users_at_risk around the inactivity threshold                       *)
(***************************************************************************)
\* Ages of trips on both sides of the thresholds the page asks for.
RiskAges == {14, 15, 16}
RiskThresholds == {14, 15}
MaxRiskTrips == 3

RiskProfiles ==
    {t \in ProfileTables :
        \A i \in DOMAIN t : t[i].subscription_tier = "free" /\ t[i].age = 20}

RiskInit ==
    /\ osenv = Unset
    /\ MgrIdle
    /\ now = 0
    /\ ret = NoRet
    /\ pool = <<>>
    /\ RLIdle
    /\ threads = <<>>
    /\ dash = <<>>
    /\ backend \in [trips : SeqsUpTo([user_id : UserIds, age : RiskAges], MaxRiskTrips),
                    profiles : RiskProfiles]

\* The "Users at risk" page: the threshold comes from the slider.
GetUsersAtRiskSlider ==
    /\ dash = <<>>
    /\ \E fail \in Failures, risk_threshold \in RiskThresholds :
           dash' = Fetched("get_users_at_risk", fail,
                           [inactivity_days |-> risk_threshold]
                             @@ get_users_at_risk(Client(fail), risk_threshold))
    /\ UNCHANGED outsideDash

RiskNext == GetUsersAtRiskSlider \/ Rerun

SpecRisk == RiskInit /\ [][RiskNext]_vars

\* The trips of profile id, and the profiles the claim calls at risk and never
\* used, read from the tables.
RiskTripsOf(id) == {k \in DOMAIN backend.trips : backend.trips[k].user_id = id}
ProfileIds == {backend.profiles[i].id : i \in DOMAIN backend.profiles}
MostRecentAge(id) ==
    CHOOSE a \in {backend.trips[k].age : k \in RiskTripsOf(id)} :
        \A k \in RiskTripsOf(id) : a <= backend.trips[k].age
AtRiskIds(inactivity_days) ==
    {id \in ProfileIds : /\ RiskTripsOf(id) # {}
                         /\ MostRecentAge(id) > inactivity_days}
NeverUsedIds == {id \in ProfileIds : RiskTripsOf(id) = {}}

RiskAnswered ==
    /\ dash # <<>>
    /\ dash[1].fn = "get_users_at_risk"
    /\ dash[1].fail = <<FALSE, FALSE>>

\* C15: get_users_at_risk(inactivity_days) returns exactly the profiles with
\* at least one trip whose most recent trip is more than inactivity_days whole
\* days old, one row each, ordered by days_since_last_trip descending and then
\* trip_count descending; never_used_count is the number of profiles with no
\* trip; no profile is both at risk and never used; with no profiles the
\* result is (empty DataFrame, 0).
C15_UsersAtRisk ==
    RiskAnswered =>
        /\ dash[1].value # <<>>
        /\ LET rows == dash[1].value[1].frame.rows
               d == dash[1].inactivity_days
           IN  /\ {rows[i].full_name[1] : i \in DOMAIN rows} = AtRiskIds(d)
               /\ Len(rows) = Cardinality(AtRiskIds(d))
               /\ \A i \in DOMAIN rows :
                     /\ rows[i].trip_count = Cardinality(RiskTripsOf(rows[i].full_name[1]))
                     /\ rows[i].days_since_last_trip = <<MostRecentAge(rows[i].full_name[1])>>
               /\ \A i \in 1..(Len(rows) - 1) :
                     \/ rows[i].days_since_last_trip[1] > rows[i + 1].days_since_last_trip[1]
                     \/ /\ rows[i].days_since_last_trip = rows[i + 1].days_since_last_trip
                        /\ rows[i].trip_count >= rows[i + 1].trip_count
               /\ dash[1].value[1].n = Cardinality(NeverUsedIds)
               /\ AtRiskIds(d) \cap NeverUsedIds = {}
               /\ backend.profiles = <<>> =>
                     dash[1].value[1] = Tuple2(DataFrame(<<>>), 0)

\* Two profiles at risk whose last trips are equally old and whose trip counts
\* differ, the one with fewer trips first in the table.
C15_Witness ==
    /\ RiskAnswered
    /\ dash[1].value # <<>>
    /\ Len(dash[1].value[1].frame.rows) = 2
    /\ dash[1].value[1].frame.rows[1].days_since_last_trip
         = dash[1].value[1].frame.rows[2].days_since_last_trip
    /\ dash[1].value[1].frame.rows[1].trip_count = 2
    /\ dash[1].value[1].frame.rows[2].trip_count = 1
    /\ backend.profiles[1].id = dash[1].value[1].frame.rows[2].full_name[1]

\* A profile whose most recent trip is exactly inactivity_days old is left out.
C15_AtThreshold ==
    /\ RiskAnswered
    /\ dash[1].value # <<>>
    /\ dash[1].value[1].frame.rows = <<>>
    /\ dash[1].value[1].n = 1
    /\ \E id \in ProfileIds :
          RiskTripsOf(id) # {} /\ MostRecentAge(id) = dash[1].inactivity_days

\* No profiles while trips exist.
C15_NoProfiles ==
    /\ RiskAnswered
    /\ backend.profiles = <<>>
    /\ backend.trips # <<>>
    /\ dash[1].value = <<Tuple2(DataFrame(<<>>), 0)>>


(***************************************************************************)
(* Query metrics: query, insert, update, delete and get_metrics            *)
(***************************************************************************)
\* ConnectionPool.get_status: it asks is_healthy, which may run a check.
get_status(p, hout, t) ==
    LET h == is_healthy(p, hout, t)
    IN  [pool |-> h.pool,
         status |-> [status |-> h.pool.status,
                     last_check |-> h.pool.last_health_check,
                     failed_attempts |-> h.pool.failed_attempts,
                     is_healthy |-> h.result]]

\* SupabaseManager.get_metrics: the manager after it and the dict it returns
\* (uptime_seconds and rate_limit read no part of the state kept here).
get_metrics(m, hout, t) ==
    LET s == get_status(m.connection_pool[1], hout, t)
    IN  [m |-> IF m.connection_pool = <<>> THEN m
               ELSE [m EXCEPT !.connection_pool = <<s.pool>>],
         metrics |->
            [environment |-> m.env[1],
             total_queries |-> m.query_count,
             failed_queries |-> m.query_errors,
             success_rate |-> IF m.query_count > 0
                              THEN Quot((m.query_count - m.query_errors) * 100,
                                        m.query_count)
                              ELSE Ratio(0, 1),
             connection_status |-> IF m.connection_pool = <<>> THEN <<>>
                                   ELSE <<s.status>>]]

\* The closures _query, _insert, _update, _delete: self.client, then the
\* request.  o.health and o.connect are what the client property meets,
\* o.execute what .execute() does.
table_call(m, o, t) ==
    LET c == client_get(m, o.connect, o.health, t)
    IN  IF c.raised # <<>> THEN [m |-> c.m, raised |-> c.raised]
        ELSE IF o.execute = "raise"
        THEN [m |-> c.m, raised |-> <<Exc("APIError", 0)>>]
        ELSE [m |-> c.m, raised |-> <<>>]

\* The for loop of execute_with_retry around one of the closures, from
\* iteration `attempt` on (0-based); f is what the closure did in this
\* iteration.
RECURSIVE table_attempts(_, _, _, _, _, _)
table_attempts(m, outs, t, attempt, retry_delay, acc) ==
    LET max_retries == m.config[1].max_retries
        acc1 == [invocations |-> acc.invocations + 1,
                 rl_waits |-> acc.rl_waits + 1,
                 sleeps |-> acc.sleeps]
        after(f) ==
            IF f.raised = <<>>
            THEN [m |-> [f.m EXCEPT !.query_count = @ + 1], raised |-> <<>>,
                  value |-> <<attempt + 1>>] @@ acc1
            ELSE IF attempt < max_retries - 1
            THEN table_attempts([f.m EXCEPT !.query_errors = @ + 1], outs, t,
                                attempt + 1, retry_delay * 2,
                                [acc1 EXCEPT !.sleeps = Append(@, retry_delay)])
            ELSE [m |-> [f.m EXCEPT !.query_errors = @ + 1],
                  raised |-> f.raised, value |-> <<>>] @@ acc1
    IN  IF attempt >= max_retries
        THEN [m |-> m, raised |-> <<>>, value |-> <<>>] @@ acc
        ELSE CHOOSE r \in {after(f) : f \in {table_call(m, outs[attempt + 1], t)}} : TRUE

\* query, insert, update and delete: execute_with_retry on their closure
\* (query logs and raises again what reaches it).
table_operation(m, outs, t) ==
    table_attempts(m, outs, t, 0, ExecRetryDelay,
                   [invocations |-> 0, rl_waits |-> 0, sleeps |-> <<>>])

TableOperations == {"query", "insert", "update", "delete"}

\* What the attempts of one call on manager m at time t can meet: the request
\* raises k times and then answers; every look at the client property of the
\* call meets the same health outcome, and its connection attempts all succeed
\* or all fail.  Outcomes that nothing in the call would consult are left out.
TableConnects(n) == {[i \in 1..n |-> "ok"], [i \in 1..n |-> "create_raises"]}
TableOutcomes(m, t) ==
    LET n == m.config[1].max_retries
        due == /\ m.client # <<>>
               /\ m.connection_pool # <<>>
               /\ is_healthy(m.connection_pool[1], "ok", t).checked
    IN  {[i \in 1..n |-> [health |-> h, connect |-> c, execute |-> e[i]]] :
            h \in (IF due THEN HealthOutcome ELSE {"ok"}),
            c \in (IF due \/ m.client = <<>> THEN TableConnects(n)
                   ELSE {[i \in 1..n |-> "ok"]}),
            e \in FuncSeqs(n)}

\* manager.query(...), .insert(...), .update(...), .delete(...)
TableOperation ==
    /\ Held
    /\ \E op \in TableOperations, outs \in TableOutcomes(M, now) :
          \E r \in {table_operation(M, outs, now)} :
              /\ r.m.query_count <= MaxQueries
              /\ r.m.query_errors <= MaxErrors
              /\ r.m.connection_pool # <<>> =>
                    r.m.connection_pool[1].failed_attempts <= MaxFailedAttempts
              /\ heap' = [heap EXCEPT ![instance[1]] = r.m]
              /\ ret' = Report(op, [pre_initialized |-> TRUE,
                                    max_retries |-> M.config[1].max_retries] @@ r)
    /\ UNCHANGED <<osenv, instance, now, returned>>
    /\ UNCHANGED outsideMgr

\* manager.get_metrics()
GetMetrics ==
    /\ Held
    /\ \E hout \in (IF M.connection_pool = <<>> THEN {"ok"}
                    ELSE HealthOutcomesFor(M.connection_pool[1])) :
          LET r == get_metrics(M, hout, now)
          IN  /\ heap' = [heap EXCEPT ![instance[1]] = r.m]
              /\ ret' = Report("get_metrics",
                           [pre_initialized |-> TRUE, value |-> <<r.metrics>>])
    /\ UNCHANGED <<osenv, instance, now, returned>>
    /\ UNCHANGED outsideMgr

MetricsNext ==
    \/ \E env \in Environment : Construct(env)
    \/ TableOperation
    \/ ExecuteWithRetry
    \/ ResetMetrics
    \/ GetMetrics
    \/ Close
    \/ Tick

SpecMetrics == Init /\ [][MetricsNext]_vars


(***************************************************************************)
(* Properties of the query metrics                                         *)
(***************************************************************************)
\* The counters of the manager (0 before any manager exists).
QueryCount == IF instance = <<>> THEN 0 ELSE M.query_count
QueryErrors == IF instance = <<>> THEN 0 ELSE M.query_errors

\* The dict the last get_metrics call returned.
MetricsReturned == ret.op = "get_metrics" /\ ret.value # <<>>
Metrics == ret.value[1]

\* C16: get_metrics reports query_count as total_queries and query_errors as
\* failed_queries, and failed_queries <= total_queries in every reachable
\* state.
C16_QueryMetrics ==
    /\ QueryErrors <= QueryCount
    /\ MetricsReturned =>
          /\ Metrics.total_queries = QueryCount
          /\ Metrics.failed_queries = QueryErrors
          /\ Metrics.failed_queries <= Metrics.total_queries

\* The counting C16 describes: a call of execute_with_retry (directly or
\* through query, insert, update, delete) that returns adds 1 to query_count,
\* every attempt of it in which func raises adds 1 to query_errors,
\* reset_metrics sets both to 0, and no other step changes either counter.
C16_Counting ==
    [][LET op == ret'.op
           returns == IF ret'.raised = <<>> THEN 1 ELSE 0
       IN  IF op \in TableOperations \cup {"execute_with_retry"}
           THEN /\ QueryCount' = QueryCount + returns
                /\ QueryErrors' = QueryErrors + ret'.invocations - returns
           ELSE IF op = "reset_metrics"
           THEN QueryCount' = 0 /\ QueryErrors' = 0
           ELSE QueryCount' = QueryCount /\ QueryErrors' = QueryErrors]_vars

\* get_metrics reports the two counters as they are.
C16_Reported ==
    MetricsReturned =>
        /\ Metrics.total_queries = QueryCount
        /\ Metrics.failed_queries = QueryErrors

\* A call that returned on its third attempt, and the metrics read after it.
C16_FailedAboveTotal ==
    /\ MetricsReturned
    /\ Metrics.total_queries = 1
    /\ Metrics.failed_queries = 2

\* C17: the success_rate get_metrics returns is between 0 and 100 inclusive,
\* and it is 0 when no query has been counted.
C17_SuccessRate ==
    MetricsReturned =>
        /\ Metrics.success_rate.den > 0
        /\ 0 <= Metrics.success_rate.num
        /\ Metrics.success_rate.num <= 100 * Metrics.success_rate.den
        /\ Metrics.total_queries = 0 => Metrics.success_rate.num = 0

\* The parts of C17 that hold: success_rate is at most 100, it is 0 when no
\* query has been counted, and it is at least 0 whenever failed_queries is not
\* above total_queries.
C17_AtMost100 ==
    MetricsReturned =>
        /\ Metrics.success_rate.den > 0
        /\ Metrics.success_rate.num <= 100 * Metrics.success_rate.den
        /\ Metrics.total_queries = 0 => Metrics.success_rate.num = 0
        /\ Metrics.failed_queries <= Metrics.total_queries =>
              0 <= Metrics.success_rate.num

\* success_rate below 0.
C17_Negative ==
    /\ MetricsReturned
    /\ Metrics.success_rate.num < 0


(***************************************************************************)
(* The ways callers reach the singleton: SupabaseManager(env),             *)
(* get_supabase_manager(env) and functions under with_supabase_client(env) *)
(***************************************************************************)
\* SupabaseManager(env) when the attempts of _initialize_client meet outs:
\* the heap and _instance after it, the object, whether __init__ ran its body,
\* and what __init__ did.
construction(env, outs) ==
    LET n == new(heap, instance, env)
        r == init(n.heap[n.self], env, outs, osenv, now)
    IN  [heap |-> [n.heap EXCEPT ![n.self] = r.m],
         instance |-> n.instance,
         self |-> n.self,
         runs |-> n.heap[n.self].initialized # <<TRUE>>,
         r |-> r]

\* The outcomes the attempts of a construction with env can meet.
ConstructionOutcomes(env) ==
    IF /\ new(heap, instance, env).heap[new(heap, instance, env).self].initialized
             # <<TRUE>>
       /\ get_config(osenv, env).raised = <<>>
    THEN AttemptSeqsOf[get_config(osenv, env).value[1].max_retries]
    ELSE {<<>>}

\* Environment(env) in get_supabase_manager: a string that names no
\* environment gives PRODUCTION.
EnvStrings == Environment \cup {"prod"}
env_enum(env) == IF env \in Environment THEN env ELSE "production"

\* get_supabase_manager(env).  st.cache_resource keeps what a call returned
\* under its argument; a call it answers from there returns the manager an
\* earlier call returned, which is the initialized singleton that running the
\* body again returns, the state untouched either way.
GetSupabaseManager(env) ==
    /\ \E outs \in ConstructionOutcomes(env_enum(env)) :
       \E c \in {construction(env_enum(env), outs)} :
          /\ heap' = c.heap
          /\ instance' = c.instance
          /\ returned' = IF c.r.raised = <<>> THEN returned \cup {c.self}
                                              ELSE returned
          /\ ret' = Report("get_supabase_manager",
                       [arg |-> env, pre_initialized |-> ~c.runs,
                        first_ok |-> FirstOk(outs),
                        value |-> IF c.r.raised = <<>> THEN <<c.self>> ELSE <<>>]
                       @@ c.r)
    /\ UNCHANGED <<osenv, now>>
    /\ UNCHANGED outsideMgr

\* What a read of the client property of manager m at time t can meet: the
\* outcome of the health check when one is due, and connection attempts that
\* all succeed or all fail when the read may connect.
ClientReads(m, t) ==
    LET n == m.config[1].max_retries
        due == /\ m.client # <<>>
               /\ m.connection_pool # <<>>
               /\ is_healthy(m.connection_pool[1], "ok", t).checked
    IN  [health : IF due THEN HealthOutcomesFor(m.connection_pool[1]) ELSE {"ok"},
         connect : IF due \/ m.client = <<>> THEN TableConnects(n)
                   ELSE {[i \in 1..n |-> "ok"]}]

\* A call of a function decorated with with_supabase_client(env): the wrapper
\* constructs the manager, reads manager.client and passes it to the function;
\* value is the client the function received.
WithSupabaseClient(env) ==
    /\ \E outs \in ConstructionOutcomes(env) :
       \E c \in {construction(env, outs)} :
          IF c.r.raised # <<>>
          THEN /\ heap' = c.heap
               /\ returned' = returned
               /\ ret' = Report("with_supabase_client",
                            [arg |-> env, pre_initialized |-> ~c.runs,
                             first_ok |-> FirstOk(outs), value |-> <<>>] @@ c.r)
          ELSE \E o \in ClientReads(c.heap[c.self], now) :
               \E g \in {client_get(c.heap[c.self], o.connect, o.health, now)} :
                  /\ heap' = [c.heap EXCEPT ![c.self] = g.m]
                  /\ returned' = returned \cup {c.self}
                  /\ ret' = Report("with_supabase_client",
                               [arg |-> env, pre_initialized |-> ~c.runs,
                                first_ok |-> FirstOk(outs),
                                attempts |-> c.r.attempts + g.attempts,
                                new_clients |-> c.r.new_clients + g.new_clients,
                                new_limiters |-> c.r.new_limiters,
                                sleeps |-> c.r.sleeps \o g.sleeps,
                                backend_calls |-> c.r.backend_calls + g.backend_calls,
                                last_client |-> IF g.last_client # <<>>
                                                THEN g.last_client
                                                ELSE c.r.last_client,
                                ran_init |-> c.r.ran_init] @@ g)
    /\ instance' = new(heap, instance, env).instance
    /\ UNCHANGED <<osenv, now>>
    /\ UNCHANGED outsideMgr

SingletonNext ==
    \/ \E env \in Environment : Construct(env)
    \/ \E env \in EnvStrings : GetSupabaseManager(env)
    \/ \E env \in Environment : WithSupabaseClient(env)
    \/ ReadClient
    \/ Close
    \/ Tick

SpecSingleton == Init /\ [][SingletonNext]_vars


(***************************************************************************)
(* Properties of the singleton across its entry points                     *)
(***************************************************************************)
Constructions == {"construct", "get_supabase_manager", "with_supabase_client"}

\* The environment a construction step was asked for.
AskedEnv == env_enum(ret.arg)

\* C18: once the manager is initialized, no step changes its env or config;
\* a later SupabaseManager(env2) or get_supabase_manager(env2) returns that
\* same manager without running the initialization, a function under
\* with_supabase_client(env2) receives that manager's client, and the config
\* stays the one get_config gives for the first environment, with its
\* credentials and max_retries.
C18_BoundToFirstEnv ==
    [][Held =>
         /\ instance' = instance
         /\ M'.initialized = <<TRUE>>
         /\ M'.env = M.env
         /\ M'.config = M.config
         /\ M'.config = get_config(osenv, M.env[1]).value
         /\ M'.config[1].max_retries = RetriesOf[M.env[1]]
         /\ ret'.op \in Constructions => ret'.pre_initialized /\ ~ret'.ran_init
         /\ ret'.op \in {"construct", "get_supabase_manager"} =>
               /\ ret'.raised = <<>>
               /\ ret'.value = instance
               /\ heap' = heap
         /\ (ret'.op = "with_supabase_client" /\ ret'.raised = <<>>) =>
               /\ ret'.value # <<>>
               /\ ret'.value = M'.client]_vars

\* C18's case: the manager was initialized for testing, with the testing
\* credentials, and get_supabase_manager("production") found it.
C18_Witness ==
    /\ ret.op = "get_supabase_manager" /\ ret.arg = "production"
    /\ ret.pre_initialized
    /\ ret.value = instance
    /\ M.env = <<"testing">>
    /\ M.config[1].url = <<"https://test.supabase.co">>
    /\ M.config[1].max_retries = 1
    /\ osenv["SUPABASE_URL"] = <<"https://main">>

\* A function under with_supabase_client(DEVELOPMENT) received the client of
\* the manager initialized for production, connected again after a close().
C18_WithClient ==
    /\ ret.op = "with_supabase_client" /\ ret.arg = "development"
    /\ ret.pre_initialized
    /\ ret.raised = <<>>
    /\ ret.new_clients >= 1
    /\ ret.attempts <= 3
    /\ M.env = <<"production">>
    /\ M.config[1].max_retries = 3
    /\ ret.value = M.client

\* The manager exists and its initialization has not completed.
Uninitialized == instance # <<>> /\ M.initialized # <<TRUE>>

\* C19: a construction that raises (get_config's ValueError, or
\* _initialize_client out of attempts) leaves initialized False; the next
\* construction then runs the whole initialization with the env passed to
\* it: it binds that env, resolves its config and makes its connection
\* attempts; and initialized becomes True only in a step in which
\* _initialize_client returned.
C19_FailedConstruction ==
    [][/\ (/\ ret'.op \in Constructions /\ ~ret'.pre_initialized
           /\ \/ get_config(osenv, AskedEnv').raised # <<>>
              \/ ret'.first_ok = 0) =>
             /\ ret'.raised # <<>>
             /\ instance' # <<>>
             /\ M'.initialized = <<FALSE>>
             /\ IF get_config(osenv, AskedEnv').raised # <<>>
                THEN ret'.attempts = 0
                ELSE ret'.attempts
                       = get_config(osenv, AskedEnv').value[1].max_retries
       /\ (Uninitialized /\ ret'.op \in Constructions) =>
             /\ instance' = instance
             /\ ~ret'.pre_initialized /\ ret'.ran_init
             /\ M'.env = <<AskedEnv'>>
             /\ get_config(osenv, AskedEnv').raised = <<>> =>
                   /\ M'.config = get_config(osenv, AskedEnv').value
                   /\ M'.query_count = 0 /\ M'.query_errors = 0
                   /\ ret'.new_limiters = 1
                   /\ ret'.attempts >= 1
                   /\ ret'.first_ok # 0 => M'.initialized = <<TRUE>>
       /\ (~Held /\ Held') =>
             /\ ret'.op \in Constructions
             /\ ret'.ran_init
             /\ ret'.first_ok # 0
             /\ ret'.attempts >= ret'.first_ok
             /\ M'.client # <<>>]_vars

\* C19's case: an earlier construction got as far as its connection attempts
\* and raised; the next one, for testing, initialized the same object for
\* testing, with a rate limiter of its own.
C19_Witness ==
    /\ ret.op = "construct" /\ ret.arg = "testing"
    /\ ~ret.pre_initialized /\ ret.ran_init
    /\ ret.raised = <<>>
    /\ instance = <<1>> /\ Len(heap) = 1
    /\ M.initialized = <<TRUE>>
    /\ M.env = <<"testing">>
    /\ M.config[1].max_retries = 1
    /\ M.rate_limiter = <<2>>

\* No credentials: the construction for production raised ValueError and left
\* the object uninitialized, bound to production and without config.
C19_MissingCredentials ==
    /\ ret.op = "construct" /\ ret.arg = "production"
    /\ ret.raised = <<Exc("ValueError", 0)>>
    /\ Uninitialized
    /\ M.env = <<"production">>
    /\ M.config = <<>>

====
